---- MODULE Spec2Model ----
(***************************************************************************)
(* One Sentence OCR: the interactive selection window (SelectionWindow of  *)
(* one_sentence_ocr.py), its pointer/keyboard handlers, the hit test, the  *)
(* resize step, and the hand-over of a confirmed rectangle to the config   *)
(* store and to the OCR worker.                                            *)
(*                                                                         *)
(* Rectangles are QRect values kept as x, y, width, height; right() and    *)
(* bottom() follow Qt: right = x + width - 1, bottom = y + height - 1.     *)
(***************************************************************************)
EXTENDS Integers, Sequences, FiniteSets, TLC

VARIABLES
    rect,         \* SelectionWindow.selection_rect
    dragging,     \* SelectionWindow.dragging
    resizing,     \* SelectionWindow.resizing
    resize_edge,  \* SelectionWindow.resize_edge (None or an edge name)
    drag_start,   \* SelectionWindow.drag_start
    cursor,       \* the cursor shape set by setCursor
    open,         \* the selection window is shown (not yet closed)
    screenshot,   \* SelectionWindow.screenshot is set (capture thread done)
    config,       \* [selection] section of config.ini: <<>> or <<rectangle>>
    workers,      \* number of OCR threads started and not yet completed
    started,      \* number of OCR threads started so far
    display,      \* what OCRWindow.display_result showed last
    session,      \* number of SelectionWindow objects created so far
    nEvents,      \* number of pointer events acted on so far (history)
    ev,           \* the last pointer, key or start event acted on (history)
    begin,        \* rectangle and point of the last accepted press (history)
    screen,       \* QApplication.primaryScreen().geometry(): width, height
    ocr_language, \* OCRWorker.ocr_language: the configured preference string
    supported,    \* tags for which the host's OcrEngine has a language pack
    languages_to_try, \* perform_ocr's candidate list (<<>> before line 359)
    calls,        \* engine calls of the current OCRWorker.perform_ocr, in order
    emitted,      \* ocr_complete messages emitted by the current perform_ocr
    status_var,   \* main.py App.status_var
    clipboard,    \* main.py: the Tk clipboard, <<>> or <<text>>
    after_queue,  \* main.py: callbacks scheduled with root.after, in order
    exc,          \* main.py run_ocr: the cell of the local name exc
    ocr_thread,   \* main.py run_ocr: position of the OCR thread
    reported,     \* main.py: exceptions raised inside Tk callbacks
    remove_newlines, \* OCRWindow.remove_newlines
    force_brackets,  \* OCRWindow.force_brackets
    result_text,  \* text_display as display_result left it when it last
                  \* handled an ocr_complete message
    pyperclip,    \* the system clipboard as pyperclip.copy left it
    delivered     \* number of ocr_complete messages handled so far (history)

\* the OCR worker of one_sentence_ocr.py and the engine it talks to
ocr_vars == <<ocr_language, supported, languages_to_try, calls, emitted>>

\* the Tk application of main.py
tk_vars == <<status_var, clipboard, after_queue, exc, ocr_thread, reported>>

\* the result window of one_sentence_ocr.py
window_vars == <<remove_newlines, force_brackets, result_text, pyperclip,
                 delivered>>

\* what the selection handlers read and never write
host_vars == <<screen, ocr_vars, tk_vars, window_vars>>

\* the selection window and its hand-over
selection_vars == <<rect, dragging, resizing, resize_edge, drag_start, cursor,
                    open, screenshot, config, workers, started, display,
                    session, nEvents, ev, begin>>

vars == <<rect, dragging, resizing, resize_edge, drag_start, cursor, open,
          screenshot, config, workers, started, display, session, nEvents, ev,
          begin, host_vars>>

---------------------------------------------------------------------------
(* Bounds of the model *)

MaxEvents == 3
MaxSessions == 2
ScreenW == 64
ScreenH == 60

\* pointer positions offered to the handlers
PX == {4, 24, 30}
PY == {4, 18, 29}
Points == [x : PX, y : PY]

\* contents of config.ini [selection] before the first session: no section
\* (load_selection_from_config returns None) or the four saved integers
NoSelection == <<>>
SavedInit == { NoSelection,
               <<[x |-> 10, y |-> 8, w |-> 30, h |-> 20]>> }

\* OCRWorker.__init__ with no [options] in config.ini, nothing recognised yet
WorkerReady ==
    /\ ocr_language = "chi_sim+eng"
    /\ supported = {"zh-Hans"}
    /\ languages_to_try = <<>>
    /\ calls = <<>>
    /\ emitted = <<>>

\* OCRWindow.__init__ with no [options] in config.ini, nothing shown yet
WindowReady ==
    /\ remove_newlines = FALSE
    /\ force_brackets = FALSE
    /\ result_text = <<>>
    /\ pyperclip = <<>>
    /\ delivered = 0

\* the name exc before run_ocr binds it and after the except block ends
Unbound == <<>>

\* main.py App.__init__, which ends by registering the default hotkey
AppReady ==
    /\ status_var = <<"Hotkey set: ctrl+f12">>
    /\ clipboard = <<>>
    /\ after_queue = <<>>
    /\ exc = Unbound
    /\ ocr_thread = "idle"
    /\ reported = {}

---------------------------------------------------------------------------
(* Program constants *)

None == "None"
TOLERANCE == 12
MIN_SIZE == 20

Corners == {"tl", "tr", "bl", "br"}
Sides == {"top", "bottom", "left", "right"}
Edges == Corners \cup Sides

---------------------------------------------------------------------------
(* QRect / QPoint helpers *)

Max(a, b) == IF a >= b THEN a ELSE b
Min(a, b) == IF a <= b THEN a ELSE b
Abs(a) == IF a >= 0 THEN a ELSE -a

QPoint(px, py) == [x |-> px, y |-> py]
QRect(rx, ry, rw, rh) == [x |-> rx, y |-> ry, w |-> rw, h |-> rh]

Left(r) == r.x
Top(r) == r.y
Right(r) == r.x + r.w - 1
Bottom(r) == r.y + r.h - 1

\* QRect.setLeft / setRight / setTop / setBottom move one side, keep the other
setLeft(r, v) == [r EXCEPT !.x = v, !.w = Right(r) - v + 1]
setRight(r, v) == [r EXCEPT !.w = v - r.x + 1]
setTop(r, v) == [r EXCEPT !.y = v, !.h = Bottom(r) - v + 1]
setBottom(r, v) == [r EXCEPT !.h = v - r.y + 1]

\* QRect.translate(delta)
translate(r, d) == [r EXCEPT !.x = r.x + d.x, !.y = r.y + d.y]

\* QRect.contains(QPoint): the sides are inclusive
contains(r, p) ==
    /\ r.w > 0 /\ r.h > 0
    /\ Left(r) <= p.x /\ p.x <= Right(r)
    /\ Top(r) <= p.y /\ p.y <= Bottom(r)

---------------------------------------------------------------------------
(* SelectionWindow.__init__: the rectangle a session opens with *)

\* a slip: the size is not clamped to the room left on the screen
initial_rect_size_unclamped(screen_geometry, saved_selection) ==
    LET screen_width == screen_geometry.w
        screen_height == screen_geometry.h
    IN IF saved_selection # NoSelection
       THEN LET saved == saved_selection[1]
                x == Max(0, Min(saved.x, screen_width - 20))
                y == Max(0, Min(saved.y, screen_height - 20))
                width == Max(20, saved.w)
                height == Max(20, saved.h)
            IN QRect(x, y, width, height)
       ELSE LET default_w == screen_width \div 2
                default_h == screen_height \div 2
                default_x == (screen_width - default_w) \div 2
                default_y == (screen_height - default_h) \div 2
            IN QRect(default_x, default_y, default_w, default_h)

initial_rect(screen_geometry, saved_selection) ==
    LET screen_width == screen_geometry.w
        screen_height == screen_geometry.h
    IN IF saved_selection # NoSelection
       THEN LET saved == saved_selection[1]
                x == Max(0, Min(saved.x, screen_width - 20))
                y == Max(0, Min(saved.y, screen_height - 20))
                width == Max(20, Min(saved.w, screen_width - x))
                height == Max(20, Min(saved.h, screen_height - y))
            IN QRect(x, y, width, height)
       ELSE LET default_w == screen_width \div 2
                default_h == screen_height \div 2
                default_x == (screen_width - default_w) \div 2
                default_y == (screen_height - default_h) \div 2
            IN QRect(default_x, default_y, default_w, default_h)

---------------------------------------------------------------------------
(* SelectionWindow.get_edge_at_point: the hit test *)

\* the four corner conditions, in the order the code tests them
InCorner(r, pos, c) ==
    LET px == pos.x
        py == pos.y
        left == Left(r)
        right == Right(r)
        top == Top(r)
        bottom == Bottom(r)
    IN CASE c = "tl" -> px - left < TOLERANCE /\ py - top < TOLERANCE
                        /\ px >= left /\ py >= top
         [] c = "tr" -> right - px < TOLERANCE /\ py - top < TOLERANCE
                        /\ px <= right /\ py >= top
         [] c = "bl" -> px - left < TOLERANCE /\ bottom - py < TOLERANCE
                        /\ px >= left /\ py <= bottom
         [] c = "br" -> right - px < TOLERANCE /\ bottom - py < TOLERANCE
                        /\ px <= right /\ py <= bottom

\* the four edge conditions
InSide(r, pos, e) ==
    LET px == pos.x
        py == pos.y
        left == Left(r)
        right == Right(r)
        top == Top(r)
        bottom == Bottom(r)
    IN CASE e = "top" -> Abs(py - top) < TOLERANCE /\ left <= px /\ px <= right
         [] e = "bottom" -> Abs(py - bottom) < TOLERANCE /\ left <= px /\ px <= right
         [] e = "left" -> Abs(px - left) < TOLERANCE /\ top <= py /\ py <= bottom
         [] e = "right" -> Abs(px - right) < TOLERANCE /\ top <= py /\ py <= bottom

\* a slip in the order of the tests: the edges are tested before the corners
get_edge_at_point_edges_first(r, pos) ==
    IF InSide(r, pos, "top") THEN "top"
    ELSE IF InSide(r, pos, "bottom") THEN "bottom"
    ELSE IF InSide(r, pos, "left") THEN "left"
    ELSE IF InSide(r, pos, "right") THEN "right"
    ELSE IF InCorner(r, pos, "tl") THEN "tl"
    ELSE IF InCorner(r, pos, "tr") THEN "tr"
    ELSE IF InCorner(r, pos, "bl") THEN "bl"
    ELSE IF InCorner(r, pos, "br") THEN "br"
    ELSE None

\* a slip in the order of the edge tests: bottom before top
get_edge_at_point_bottom_first(r, pos) ==
    IF InCorner(r, pos, "tl") THEN "tl"
    ELSE IF InCorner(r, pos, "tr") THEN "tr"
    ELSE IF InCorner(r, pos, "bl") THEN "bl"
    ELSE IF InCorner(r, pos, "br") THEN "br"
    ELSE IF InSide(r, pos, "bottom") THEN "bottom"
    ELSE IF InSide(r, pos, "top") THEN "top"
    ELSE IF InSide(r, pos, "left") THEN "left"
    ELSE IF InSide(r, pos, "right") THEN "right"
    ELSE None

\* a slip in the order of the corner tests: the bottom corners first
get_edge_at_point_bl_first(r, pos) ==
    IF InCorner(r, pos, "bl") THEN "bl"
    ELSE IF InCorner(r, pos, "br") THEN "br"
    ELSE IF InCorner(r, pos, "tl") THEN "tl"
    ELSE IF InCorner(r, pos, "tr") THEN "tr"
    ELSE IF InSide(r, pos, "top") THEN "top"
    ELSE IF InSide(r, pos, "bottom") THEN "bottom"
    ELSE IF InSide(r, pos, "left") THEN "left"
    ELSE IF InSide(r, pos, "right") THEN "right"
    ELSE None

get_edge_at_point(r, pos) ==
    IF InCorner(r, pos, "tl") THEN "tl"
    ELSE IF InCorner(r, pos, "tr") THEN "tr"
    ELSE IF InCorner(r, pos, "bl") THEN "bl"
    ELSE IF InCorner(r, pos, "br") THEN "br"
    ELSE IF InSide(r, pos, "top") THEN "top"
    ELSE IF InSide(r, pos, "bottom") THEN "bottom"
    ELSE IF InSide(r, pos, "left") THEN "left"
    ELSE IF InSide(r, pos, "right") THEN "right"
    ELSE None

---------------------------------------------------------------------------
(* SelectionWindow.resize_selection *)

\* new_rect before the size check
moved_rect(r, edge, pos) ==
    LET h == IF edge \in {"tl", "bl", "left"} THEN setLeft(r, pos.x)
             ELSE IF edge \in {"tr", "br", "right"} THEN setRight(r, pos.x)
             ELSE r
    IN IF edge \in {"tl", "tr", "top"} THEN setTop(h, pos.y)
       ELSE IF edge \in {"bl", "br", "bottom"} THEN setBottom(h, pos.y)
       ELSE h

\* a slip: the size check is dropped
resize_selection_unchecked(r, edge, pos) == moved_rect(r, edge, pos)

\* a slip: only the width is checked
resize_selection_width_only(r, edge, pos) ==
    LET new_rect == moved_rect(r, edge, pos)
    IN IF new_rect.w >= 20 THEN new_rect ELSE r

\* a slip: each dimension is checked and kept on its own
resize_selection_per_axis(r, edge, pos) ==
    LET new_rect == moved_rect(r, edge, pos)
        okw == new_rect.w >= 20
        okh == new_rect.h >= 20
    IN QRect(IF okw THEN new_rect.x ELSE r.x, IF okh THEN new_rect.y ELSE r.y,
             IF okw THEN new_rect.w ELSE r.w, IF okh THEN new_rect.h ELSE r.h)

\* a slip: the left handles move the right side
resize_selection_wrong_side(r, edge, pos) ==
    LET h == IF edge \in {"tl", "bl", "left"} THEN setRight(r, pos.x)
             ELSE IF edge \in {"tr", "br", "right"} THEN setRight(r, pos.x)
             ELSE r
        new_rect == IF edge \in {"tl", "tr", "top"} THEN setTop(h, pos.y)
                    ELSE IF edge \in {"bl", "br", "bottom"} THEN setBottom(h, pos.y)
                    ELSE h
    IN IF new_rect.w >= 20 /\ new_rect.h >= 20 THEN new_rect ELSE r

resize_selection(r, edge, pos) ==
    LET new_rect == moved_rect(r, edge, pos)
    IN IF new_rect.w >= 20 /\ new_rect.h >= 20 THEN new_rect ELSE r

---------------------------------------------------------------------------
(* The handlers of SelectionWindow *)

Buttons == {"left", "right"}
Keys == {"Escape", "Return", "other"}

Event(kind, pos, arg) == [kind |-> kind, pos |-> pos, arg |-> arg]
NoPos == QPoint(0, 0)

worker_vars == <<config, workers, started, display>>

\* the cursor shape that belongs to a handle
edge_cursor(edge) ==
    IF edge \in {"tl", "br"} THEN "SizeFDiag"
    ELSE IF edge \in {"tr", "bl"} THEN "SizeBDiag"
    ELSE IF edge \in {"top", "bottom"} THEN "SizeVer"
    ELSE IF edge \in {"left", "right"} THEN "SizeHor"
    ELSE "Arrow"

\* the cursor hint of an idle move
hover_cursor(r, pos) ==
    LET current_edge == get_edge_at_point(r, pos)
    IN IF current_edge # None THEN edge_cursor(current_edge)
       ELSE IF contains(r, pos) THEN "OpenHand"
       ELSE "Arrow"

\* a slip: an outside click saves the rectangle and starts recognition
mousePressEvent_outside_confirms(pos, button) ==
    IF button = "left"
    THEN LET edge == get_edge_at_point(rect, pos)
         IN IF edge # None
            THEN /\ resizing' = TRUE
                 /\ resize_edge' = edge
                 /\ drag_start' = pos
                 /\ UNCHANGED <<rect, dragging, cursor, open, worker_vars>>
            ELSE IF contains(rect, pos)
            THEN /\ dragging' = TRUE
                 /\ drag_start' = pos
                 /\ UNCHANGED <<rect, resizing, resize_edge, cursor, open, worker_vars>>
            ELSE /\ open' = FALSE
                 /\ config' = <<rect>>
                 /\ workers' = workers + 1
                 /\ started' = started + 1
                 /\ UNCHANGED <<rect, dragging, resizing, resize_edge,
                                drag_start, cursor, display>>
    ELSE UNCHANGED <<rect, dragging, resizing, resize_edge, drag_start,
                     cursor, open, worker_vars>>

mousePressEvent(pos, button) ==
    IF button = "left"
    THEN LET edge == get_edge_at_point(rect, pos)
         IN IF edge # None
            THEN /\ resizing' = TRUE
                 /\ resize_edge' = edge
                 /\ drag_start' = pos
                 /\ UNCHANGED <<rect, dragging, cursor, open, worker_vars>>
            ELSE IF contains(rect, pos)
            THEN /\ dragging' = TRUE
                 /\ drag_start' = pos
                 /\ UNCHANGED <<rect, resizing, resize_edge, cursor, open, worker_vars>>
            ELSE \* click outside the selection area: cancel capture
                 /\ open' = FALSE
                 /\ UNCHANGED <<rect, dragging, resizing, resize_edge,
                                drag_start, cursor, worker_vars>>
    ELSE UNCHANGED <<rect, dragging, resizing, resize_edge, drag_start,
                     cursor, open, worker_vars>>

\* a slip: the anchor is not advanced after a drag step
mouseMoveEvent_stale_anchor(pos) ==
    IF dragging
    THEN /\ rect' = translate(rect, QPoint(pos.x - drag_start.x, pos.y - drag_start.y))
         /\ cursor' = "ClosedHand"
         /\ UNCHANGED <<drag_start, dragging, resizing, resize_edge, open, worker_vars>>
    ELSE IF resizing /\ resize_edge # None
    THEN /\ rect' = resize_selection(rect, resize_edge, pos)
         /\ cursor' = edge_cursor(resize_edge)
         /\ UNCHANGED <<dragging, resizing, resize_edge, drag_start, open, worker_vars>>
    ELSE /\ cursor' = hover_cursor(rect, pos)
         /\ UNCHANGED <<rect, dragging, resizing, resize_edge, drag_start,
                        open, worker_vars>>

\* a slip: the resize branch is taken whenever the pointer is over a handle
mouseMoveEvent_hover_resizes(pos) ==
    LET current_edge == get_edge_at_point(rect, pos)
    IN IF dragging
       THEN /\ rect' = translate(rect, QPoint(pos.x - drag_start.x, pos.y - drag_start.y))
            /\ drag_start' = pos
            /\ cursor' = "ClosedHand"
            /\ UNCHANGED <<dragging, resizing, resize_edge, open, worker_vars>>
       ELSE IF current_edge # None
       THEN /\ rect' = resize_selection(rect, current_edge, pos)
            /\ cursor' = edge_cursor(current_edge)
            /\ UNCHANGED <<dragging, resizing, resize_edge, drag_start, open, worker_vars>>
       ELSE /\ cursor' = hover_cursor(rect, pos)
            /\ UNCHANGED <<rect, dragging, resizing, resize_edge, drag_start,
                           open, worker_vars>>

mouseMoveEvent(pos) ==
    IF dragging
    THEN \* dragging the selection
         /\ rect' = translate(rect, QPoint(pos.x - drag_start.x, pos.y - drag_start.y))
         /\ drag_start' = pos
         /\ cursor' = "ClosedHand"
         /\ UNCHANGED <<dragging, resizing, resize_edge, open, worker_vars>>
    ELSE IF resizing /\ resize_edge # None
    THEN \* resizing the selection
         /\ rect' = resize_selection(rect, resize_edge, pos)
         /\ cursor' = edge_cursor(resize_edge)
         /\ UNCHANGED <<dragging, resizing, resize_edge, drag_start, open, worker_vars>>
    ELSE \* normal movement: update cursor based on position
         /\ cursor' = hover_cursor(rect, pos)
         /\ UNCHANGED <<rect, dragging, resizing, resize_edge, drag_start,
                        open, worker_vars>>

\* a slip: the release ends a drag but not a resize
mouseReleaseEvent_drag_only(button) ==
    IF button = "left"
    THEN /\ dragging' = FALSE
         /\ cursor' = "Arrow"
         /\ UNCHANGED <<rect, resizing, resize_edge, drag_start, open, worker_vars>>
    ELSE UNCHANGED <<rect, dragging, resizing, resize_edge, drag_start,
                     cursor, open, worker_vars>>

mouseReleaseEvent(button) ==
    IF button = "left"
    THEN /\ dragging' = FALSE
         /\ resizing' = FALSE
         /\ resize_edge' = None
         /\ cursor' = "Arrow"
         /\ UNCHANGED <<rect, drag_start, open, worker_vars>>
    ELSE UNCHANGED <<rect, dragging, resizing, resize_edge, drag_start,
                     cursor, open, worker_vars>>

\* perform_ocr without the early return of line 690: the error is shown and
\* the window is closed all the same
perform_ocr_closes_unready ==
    IF ~screenshot
    THEN /\ display' = "not_ready"
         /\ open' = FALSE
         /\ UNCHANGED <<config, workers, started>>
    ELSE /\ IF rect.w > 10 /\ rect.h > 10
            THEN /\ config' = <<QRect(rect.x, rect.y, rect.w, rect.h)>>
                 /\ display' = "processing"
                 /\ workers' = workers + 1
                 /\ started' = started + 1
            ELSE UNCHANGED <<config, display, workers, started>>
         /\ open' = FALSE

\* perform_ocr that saves right() - left() and bottom() - top() as the size
perform_ocr_saves_corners ==
    IF ~screenshot
    THEN /\ display' = "not_ready"
         /\ UNCHANGED <<open, config, workers, started>>
    ELSE /\ IF rect.w > 10 /\ rect.h > 10
            THEN /\ config' = <<QRect(rect.x, rect.y, Right(rect) - Left(rect),
                                      Bottom(rect) - Top(rect))>>
                 /\ display' = "processing"
                 /\ workers' = workers + 1
                 /\ started' = started + 1
            ELSE UNCHANGED <<config, display, workers, started>>
         /\ open' = FALSE

\* SelectionWindow.perform_ocr (Enter)
perform_ocr ==
    IF ~screenshot
    THEN /\ display' = "not_ready"
         /\ UNCHANGED <<open, config, workers, started>>
    ELSE /\ IF rect.w > 10 /\ rect.h > 10
            THEN /\ config' = <<QRect(rect.x, rect.y, rect.w, rect.h)>>
                 /\ display' = "processing"
                 /\ workers' = workers + 1
                 /\ started' = started + 1
            ELSE UNCHANGED <<config, display, workers, started>>
         /\ open' = FALSE

keyPressEvent(key) ==
    /\ IF key = "Escape" THEN open' = FALSE /\ UNCHANGED worker_vars
       ELSE IF key = "Return" THEN perform_ocr
       ELSE UNCHANGED <<open, worker_vars>>
    /\ UNCHANGED <<rect, dragging, resizing, resize_edge, drag_start, cursor>>

---------------------------------------------------------------------------
(* Actions *)

MousePress ==
    \E pos \in Points, button \in Buttons :
        /\ open /\ nEvents < MaxEvents
        /\ mousePressEvent(pos, button)
        /\ nEvents' = IF button = "left" THEN nEvents + 1 ELSE nEvents
        /\ ev' = IF button = "left" THEN Event("press", pos, button) ELSE ev
        /\ begin' = IF button = "left" /\ open'
                    THEN [rect |-> rect, pos |-> pos] ELSE begin
        /\ UNCHANGED <<screenshot, session, host_vars>>

MouseMove ==
    \E pos \in Points :
        /\ open /\ nEvents < MaxEvents
        /\ mouseMoveEvent(pos)
        /\ nEvents' = nEvents + 1
        /\ ev' = Event("move", pos, "")
        /\ UNCHANGED <<screenshot, session, begin, host_vars>>

MouseRelease ==
    \E button \in Buttons :
        /\ open /\ nEvents < MaxEvents
        /\ mouseReleaseEvent(button)
        /\ nEvents' = IF button = "left" THEN nEvents + 1 ELSE nEvents
        /\ ev' = IF button = "left" THEN Event("release", NoPos, button) ELSE ev
        /\ UNCHANGED <<screenshot, session, begin, host_vars>>

KeyPress ==
    \E key \in Keys :
        /\ open
        /\ keyPressEvent(key)
        /\ ev' = IF key \in {"Escape", "Return"}
                 THEN Event("key", NoPos, key) ELSE ev
        /\ UNCHANGED <<screenshot, session, nEvents, begin, host_vars>>

\* the capture thread delivers the screenshot (screenshot_ready signal)
ScreenshotReady ==
    /\ ~screenshot
    /\ screenshot' = TRUE
    /\ UNCHANGED <<rect, dragging, resizing, resize_edge, drag_start, cursor,
                   open, worker_vars, session, nEvents, ev, begin, host_vars>>

\* OCRWindow.start_capture: a new SelectionWindow replaces the previous one
StartCapture ==
    /\ session < MaxSessions
    /\ session' = session + 1
    /\ rect' = initial_rect(screen, config)
    /\ dragging' = FALSE
    /\ resizing' = FALSE
    /\ resize_edge' = None
    /\ drag_start' = QPoint(0, 0)
    /\ cursor' = "Arrow"
    /\ open' = TRUE
    /\ screenshot' = FALSE
    /\ ev' = Event("start", NoPos, "")
    /\ begin' = [rect |-> initial_rect(screen, config), pos |-> NoPos]
    /\ UNCHANGED <<worker_vars, nEvents, host_vars>>

\* an OCR thread emits ocr_complete, which is connected to display_result
OcrComplete ==
    /\ workers > 0
    /\ workers' = workers - 1
    /\ display' = "result"
    /\ UNCHANGED <<rect, dragging, resizing, resize_edge, drag_start, cursor,
                   open, screenshot, config, started, session, nEvents, ev,
                   begin, host_vars>>

Init ==
    /\ screen = [w |-> ScreenW, h |-> ScreenH]
    /\ config \in SavedInit
    /\ rect = initial_rect(screen, config)
    /\ dragging = FALSE
    /\ resizing = FALSE
    /\ resize_edge = None
    /\ drag_start = QPoint(0, 0)
    /\ cursor = "Arrow"
    /\ open = TRUE
    /\ screenshot = FALSE
    /\ workers = 0
    /\ started = 0
    /\ display = "none"
    /\ session = 1
    /\ nEvents = 0
    /\ ev = Event("start", NoPos, "")
    /\ begin = [rect |-> rect, pos |-> NoPos]
    /\ WorkerReady
    /\ AppReady
    /\ WindowReady

Next ==
    \/ MousePress
    \/ MouseMove
    \/ MouseRelease
    \/ KeyPress
    \/ ScreenshotReady
    \/ StartCapture
    \/ OcrComplete

Spec == Init /\ [][Next]_vars

---------------------------------------------------------------------------
(* Vocabulary of the properties *)

\* the step just taken handled a left-button press / a pointer move / a key
PressStep == ev'.kind = "press" /\ ev'.arg = "left" /\ nEvents' = nEvents + 1
MoveStep == ev'.kind = "move" /\ nEvents' = nEvents + 1
EscapeStep == open /\ ev'.kind = "key" /\ ev'.arg = "Escape"

\* the move is handled by the resize branch / by the idle branch
ResizeMove == MoveStep /\ ~dragging /\ resizing /\ resize_edge # None
IdleMove == MoveStep /\ ~dragging /\ ~resizing

\* distance of a point from a corner of r, per axis
CornerX(r, c) == IF c \in {"tl", "bl"} THEN Left(r) ELSE Right(r)
CornerY(r, c) == IF c \in {"tl", "tr"} THEN Top(r) ELSE Bottom(r)
NearCorner(r, p, c) ==
    /\ Abs(p.x - CornerX(r, c)) < TOLERANCE
    /\ Abs(p.y - CornerY(r, c)) < TOLERANCE

\* the first element of an ordered list of handles that satisfies Zone
FirstOf(order, Zone(_)) ==
    LET hits == {i \in 1..Len(order) : Zone(order[i])}
    IN IF hits = {} THEN None
       ELSE order[CHOOSE i \in hits : \A j \in hits : i <= j]

CornerOrder == <<"tl", "tr", "bl", "br">>
SideOrder == <<"top", "bottom", "left", "right">>

InSomeCorner(r, p) == \E c \in Corners : InCorner(r, p, c)
InSomeSide(r, p) == \E e \in Sides : InSide(r, p, e)

\* the sides of r that a handle does not move are those of q
SameLeft(r, q) == Left(r) = Left(q)
SameRight(r, q) == Right(r) = Right(q)
SameTop(r, q) == Top(r) = Top(q)
SameBottom(r, q) == Bottom(r) = Bottom(q)

---------------------------------------------------------------------------
(* Properties *)

\* C1: in every reachable state, after any sequence of press / move /
\* release events, the selection rectangle has width >= 20 and height >= 20.
C1_MinimumSize == rect.w >= MIN_SIZE /\ rect.h >= MIN_SIZE

\* a resize update whose pointer crossed the opposite side has been handled
C1_Witness ==
    /\ ev.kind = "move" /\ resizing /\ ~dragging
    /\ \/ resize_edge \in {"tr", "br", "right"} /\ ev.pos.x < Left(rect)
       \/ resize_edge \in {"bl", "br", "bottom"} /\ ev.pos.y < Top(rect)
       \/ resize_edge \in {"tl", "bl", "left"} /\ ev.pos.x > Right(rect)
       \/ resize_edge \in {"tl", "tr", "top"} /\ ev.pos.y > Bottom(rect)

\* exactly one dimension of the rectangle the pointer asks for is below 20
OneDimensionShort(r, edge, pos) ==
    LET new_rect == moved_rect(r, edge, pos)
    IN (new_rect.w < MIN_SIZE) # (new_rect.h < MIN_SIZE)

\* C2 as stated: in a corner resize where exactly one dimension would fall
\* below 20, only that dimension keeps its value and the other one follows
\* the pointer.
C2_PerDimension ==
    [][(ResizeMove /\ resize_edge \in Corners
          /\ OneDimensionShort(rect, resize_edge, ev'.pos))
       => LET new_rect == moved_rect(rect, resize_edge, ev'.pos)
          IN IF new_rect.w < MIN_SIZE
             THEN rect'.w = rect.w /\ rect'.x = rect.x
                  /\ rect'.h = new_rect.h /\ rect'.y = new_rect.y
             ELSE rect'.h = rect.h /\ rect'.y = rect.y
                  /\ rect'.w = new_rect.w /\ rect'.x = new_rect.x]_vars

\* C2 amended: in a corner resize where exactly one dimension would fall
\* below 20, the update is rejected as a whole: neither dimension changes.
C2_WholeRejected ==
    [][(ResizeMove /\ resize_edge \in Corners
          /\ OneDimensionShort(rect, resize_edge, ev'.pos))
       => rect' = rect]_vars

\* a corner resize asking for one short and one valid dimension was handled
C2_Witness ==
    /\ ev.kind = "move" /\ resizing /\ ~dragging
    /\ resize_edge \in Corners
    /\ OneDimensionShort(rect, resize_edge, ev.pos)

\* C3: a resize update whose resulting rectangle would have width < 20 or
\* height < 20 leaves x, y, width and height as they were, and the window
\* stays in the resizing state with the same edge.
C3_RejectedAsWhole ==
    [][(ResizeMove
          /\ LET new_rect == moved_rect(rect, resize_edge, ev'.pos)
             IN new_rect.w < MIN_SIZE \/ new_rect.h < MIN_SIZE)
       => /\ rect'.x = rect.x /\ rect'.y = rect.y
          /\ rect'.w = rect.w /\ rect'.h = rect.h
          /\ resizing' /\ ~dragging'
          /\ resize_edge' = resize_edge]_vars

\* a resize update asking for too small a height (width still valid) was
\* handled
C3_Witness ==
    /\ ev.kind = "move" /\ resizing /\ ~dragging /\ resize_edge # None
    /\ LET new_rect == moved_rect(rect, resize_edge, ev.pos)
       IN new_rect.h < MIN_SIZE /\ new_rect.w >= MIN_SIZE

\* C4: a press at a point that satisfies a corner condition and an edge
\* condition of the hit test is resolved to the corner: the hit test returns
\* a corner whose zone holds the point, and the press records that corner as
\* the resize edge.
C4_CornerWins ==
    [][(PressStep /\ InSomeCorner(rect, ev'.pos) /\ InSomeSide(rect, ev'.pos))
       => /\ get_edge_at_point(rect, ev'.pos) \in Corners
          /\ InCorner(rect, ev'.pos, get_edge_at_point(rect, ev'.pos))
          /\ resizing'
          /\ resize_edge' = get_edge_at_point(rect, ev'.pos)
          /\ resize_edge' \in Corners]_vars

\* a press in a corner zone that is also an edge zone was handled
C4_Witness ==
    /\ ev.kind = "press" /\ ev.arg = "left" /\ open
    /\ resizing /\ resize_edge \in Corners
    /\ InCorner(rect, ev.pos, resize_edge)
    /\ InSomeSide(rect, ev.pos)

\* C5 as stated: a press less than 12px (on both axes) from a corner,
\* inside or outside the rectangle, enters resizing with a corner it is
\* that close to.
C5_AnyNearCorner ==
    [][(PressStep /\ \E c \in Corners : NearCorner(rect, ev'.pos, c))
       => /\ resizing'
          /\ resize_edge' \in Corners
          /\ NearCorner(rect, ev'.pos, resize_edge')]_vars

\* C5 amended: a press less than 12px (on both axes) from a corner and
\* inside the rectangle (sides included) enters resizing with the first
\* corner, in the order tl, tr, bl, br, that is that close.
C5_InsideNearCorner ==
    [][(PressStep /\ contains(rect, ev'.pos)
          /\ \E c \in Corners : NearCorner(rect, ev'.pos, c))
       => /\ resizing'
          /\ resize_edge' =
                FirstOf(CornerOrder, LAMBDA c : NearCorner(rect, ev'.pos, c))
          /\ open' /\ rect' = rect]_vars

\* a press inside the rectangle, close to two corners at once, was handled
C5_Witness ==
    /\ ev.kind = "press" /\ ev.arg = "left" /\ open
    /\ contains(rect, ev.pos)
    /\ resizing /\ resize_edge = "tr"
    /\ NearCorner(rect, ev.pos, "tr") /\ NearCorner(rect, ev.pos, "br")

\* C6 as stated: a press in no corner zone enters resizing with edge e
\* whenever the point is in the zone of edge e; in no zone but inside the
\* rectangle it enters dragging; the press point becomes the anchor and the
\* rectangle is unchanged.
C6_EveryEdge ==
    [][(PressStep /\ ~InSomeCorner(rect, ev'.pos))
       => /\ \A e \in Sides :
                InSide(rect, ev'.pos, e) => resizing' /\ resize_edge' = e
          /\ (~InSomeSide(rect, ev'.pos) /\ contains(rect, ev'.pos))
                => dragging'
          /\ (InSomeSide(rect, ev'.pos) \/ contains(rect, ev'.pos))
                => drag_start' = ev'.pos /\ rect' = rect]_vars

\* C6 amended: a press in no corner zone enters resizing with the first
\* edge, in the order top, bottom, left, right, whose zone holds the point;
\* in no zone but inside the rectangle it enters dragging; the press point
\* becomes the anchor and the rectangle is unchanged.
C6_FirstEdge ==
    [][(PressStep /\ ~InSomeCorner(rect, ev'.pos))
       => /\ InSomeSide(rect, ev'.pos)
                => /\ resizing'
                   /\ resize_edge' =
                        FirstOf(SideOrder, LAMBDA e : InSide(rect, ev'.pos, e))
                   /\ dragging' = dragging
          /\ (~InSomeSide(rect, ev'.pos) /\ contains(rect, ev'.pos))
                => /\ dragging'
                   /\ resizing' = resizing /\ resize_edge' = resize_edge
          /\ (InSomeSide(rect, ev'.pos) \/ contains(rect, ev'.pos))
                => drag_start' = ev'.pos /\ rect' = rect /\ open']_vars

\* a press in the zones of both the top and the bottom edge, in no corner
\* zone, was handled
C6_Witness ==
    /\ ev.kind = "press" /\ ev.arg = "left" /\ open
    /\ ~InSomeCorner(rect, ev.pos)
    /\ InSide(rect, ev.pos, "top") /\ InSide(rect, ev.pos, "bottom")
    /\ resizing /\ resize_edge = "top" /\ drag_start = ev.pos

\* the step cancels the session: a press outside the rectangle and outside
\* every handle zone, or the Escape key
CancelStep ==
    \/ PressStep /\ get_edge_at_point(rect, ev'.pos) = None
                 /\ ~contains(rect, ev'.pos)
    \/ EscapeStep

\* C7: a cancellation closes the session and changes nothing else: the
\* rectangle and the interaction flags are as before, nothing is written to
\* the config store and no recognition is started; and a closed session is
\* terminal: until a new session is created it stays closed, and its
\* rectangle, its flags, the stored selection and the number of
\* recognitions started stay as they are.
C7_CancelNoEffect ==
    [][/\ CancelStep
          => /\ ~open'
             /\ rect' = rect
             /\ dragging' = dragging /\ resizing' = resizing
             /\ resize_edge' = resize_edge
             /\ config' = config
             /\ started' = started /\ workers' = workers
             /\ display' = display
       /\ (~open /\ session' = session)
          => /\ ~open'
             /\ rect' = rect
             /\ dragging' = dragging /\ resizing' = resizing
             /\ resize_edge' = resize_edge
             /\ config' = config
             /\ started' = started]_vars

\* a session was cancelled by a press outside, with the screenshot ready and
\* a pointer event handled before
C7_Witness ==
    /\ ~open /\ screenshot /\ nEvents >= 2
    /\ ev.kind = "press" /\ ev.arg = "left"
    /\ get_edge_at_point(rect, ev.pos) = None /\ ~contains(rect, ev.pos)
    /\ started = 0

\* C8: while dragging, the rectangle is the rectangle at begin translated by
\* (last pointer position - begin point): width and height are those at
\* begin and the origin is not clamped; each update moves the rectangle by
\* the pointer delta since the previous update and makes that pointer
\* position the new anchor.
C8_DragTranslates ==
    /\ [](dragging =>
            /\ rect.w = begin.rect.w /\ rect.h = begin.rect.h
            /\ rect.x = begin.rect.x + (drag_start.x - begin.pos.x)
            /\ rect.y = begin.rect.y + (drag_start.y - begin.pos.y))
    /\ [][(MoveStep /\ dragging)
          => /\ rect'.x = rect.x + (ev'.pos.x - drag_start.x)
             /\ rect'.y = rect.y + (ev'.pos.y - drag_start.y)
             /\ rect'.w = rect.w /\ rect'.h = rect.h
             /\ drag_start' = ev'.pos]_vars

\* two drag updates were handled and the rectangle left the screen
C8_Witness ==
    /\ dragging /\ ev.kind = "move" /\ nEvents >= 3
    /\ drag_start # begin.pos
    /\ \/ rect.x < 0 \/ rect.y < 0
       \/ Right(rect) >= ScreenW \/ Bottom(rect) >= ScreenH

\* C9: a resize update that is accepted puts the side(s) implied by the edge
\* at the pointer and leaves the other sides where they were: one side for
\* left / right / top / bottom, the two adjacent sides for a corner.
C9_OnlyImpliedSides ==
    [][(ResizeMove
          /\ LET new_rect == moved_rect(rect, resize_edge, ev'.pos)
             IN new_rect.w >= MIN_SIZE /\ new_rect.h >= MIN_SIZE)
       => /\ IF resize_edge \in {"tl", "bl", "left"}
             THEN Left(rect') = ev'.pos.x /\ SameRight(rect', rect)
             ELSE IF resize_edge \in {"tr", "br", "right"}
             THEN Right(rect') = ev'.pos.x /\ SameLeft(rect', rect)
             ELSE SameLeft(rect', rect) /\ SameRight(rect', rect)
          /\ IF resize_edge \in {"tl", "tr", "top"}
             THEN Top(rect') = ev'.pos.y /\ SameBottom(rect', rect)
             ELSE IF resize_edge \in {"bl", "br", "bottom"}
             THEN Bottom(rect') = ev'.pos.y /\ SameTop(rect', rect)
             ELSE SameTop(rect', rect) /\ SameBottom(rect', rect)]_vars

\* an accepted resize by the left handle moved the left side to the pointer
C9_Witness ==
    /\ ev.kind = "move" /\ resizing /\ ~dragging
    /\ resize_edge = "left"
    /\ Left(rect) = ev.pos.x /\ Left(rect) # Left(begin.rect)
    /\ SameRight(rect, begin.rect) /\ SameTop(rect, begin.rect)
    /\ SameBottom(rect, begin.rect)

\* C10: a pointer move while idle changes neither the rectangle nor the
\* interaction state (flags, edge, anchor); the session stays open and only
\* the cursor hint is recomputed from the pointer position.
C10_IdleMoveFrame ==
    [][IdleMove
       => /\ rect' = rect
          /\ dragging' = dragging /\ resizing' = resizing
          /\ resize_edge' = resize_edge /\ drag_start' = drag_start
          /\ open' = open /\ config' = config /\ started' = started
          /\ cursor' = hover_cursor(rect, ev'.pos)]_vars

\* an idle move over a handle was handled: the cursor shows a resize shape
C10_Witness ==
    /\ ev.kind = "move" /\ ~dragging /\ ~resizing /\ resize_edge = None
    /\ get_edge_at_point(rect, ev.pos) # None
    /\ cursor = edge_cursor(get_edge_at_point(rect, ev.pos))
    /\ cursor # "Arrow"

\* the step just taken handled a left-button release
ReleaseStep == ev'.kind = "release" /\ nEvents' = nEvents + 1

\* C11: a left-button release while dragging or resizing leaves the window
\* idle (dragging false, resizing false, no resize edge), open, and with the
\* rectangle exactly as the last update left it.
C11_ReleaseToIdle ==
    [][(ReleaseStep /\ (dragging \/ resizing))
       => /\ ~dragging' /\ ~resizing' /\ resize_edge' = None
          /\ rect' = rect
          /\ open']_vars

\* a press, an update that changed the rectangle and a release were handled
C11_Witness ==
    /\ ev.kind = "release" /\ nEvents >= 3
    /\ ~dragging /\ ~resizing /\ resize_edge = None
    /\ rect # begin.rect

---------------------------------------------------------------------------
(* Opening sessions from arbitrary saved rectangles and screens: the       *)
(* application before its first capture, driven by start_capture and the   *)
(* keyboard only.                                                          *)

\* screen geometries and saved [selection] values offered to __init__
ClampScreens == { [w |-> 20, h |-> 20],
                  [w |-> ScreenW, h |-> ScreenH],
                  [w |-> 1920, h |-> 1080] }
ClampX == {-50, 0, 10, 50, 2000}
ClampY == {-5, 10, 45, 1100}
ClampW == {-3, 0, 20, 30, 300, 2000}
ClampH == {5, 20, 200, 1200}
ClampSaved ==
    {NoSelection} \cup
    { <<QRect(x, y, w, h)>> : x \in ClampX, y \in ClampY, w \in ClampW, h \in ClampH }

InitClamp ==
    /\ screen \in ClampScreens
    /\ config \in ClampSaved
    /\ rect = QRect(0, 0, 0, 0)
    /\ dragging = FALSE
    /\ resizing = FALSE
    /\ resize_edge = None
    /\ drag_start = QPoint(0, 0)
    /\ cursor = "Arrow"
    /\ open = FALSE
    /\ screenshot = FALSE
    /\ workers = 0
    /\ started = 0
    /\ display = "none"
    /\ session = 0
    /\ nEvents = 0
    /\ ev = Event("none", NoPos, "")
    /\ begin = [rect |-> rect, pos |-> NoPos]
    /\ WorkerReady
    /\ AppReady
    /\ WindowReady

NextClamp ==
    \/ StartCapture
    \/ ScreenshotReady
    \/ KeyPress
    \/ OcrComplete

SpecClamp == InitClamp /\ [][NextClamp]_vars

\* r lies on the screen with the minimum size
OnScreen(scr, r) ==
    /\ 0 <= r.x /\ r.x <= scr.w - 20
    /\ 0 <= r.y /\ r.y <= scr.h - 20
    /\ r.w >= 20 /\ r.h >= 20
    /\ r.x + r.w <= scr.w
    /\ r.y + r.h <= scr.h

\* the session was just opened from the stored selection
OpenedFromSaved == ev.kind = "start" /\ config # NoSelection

ScenarioA_Saved == <<QRect(-50, 10, 300, 200)>>
ScenarioA_Screen == [w |-> 1920, h |-> 1080]

\* C12: for every saved rectangle and every screen of at least 20x20 the
\* rectangle a session opens with has 0 <= x <= screen_width-20,
\* 0 <= y <= screen_height-20, width >= 20, height >= 20 and ends inside the
\* screen; a saved rectangle that already satisfies this is taken unchanged;
\* (-50,10,300,200) on 1920x1080 becomes (0,10,300,200).
C12_ClampedToScreen ==
    OpenedFromSaved
    => /\ OnScreen(screen, rect)
       /\ OnScreen(screen, config[1]) => rect = config[1]
       /\ (config = ScenarioA_Saved /\ screen = ScenarioA_Screen)
             => rect = QRect(0, 10, 300, 200)

\* a session was opened from (-50,10,300,200) on the 1920x1080 screen
C12_Witness ==
    /\ OpenedFromSaved
    /\ config = ScenarioA_Saved /\ screen = ScenarioA_Screen
    /\ rect = QRect(0, 10, 300, 200)

---------------------------------------------------------------------------
(* Text: a str is a sequence of characters. ASCII characters stand for     *)
(* themselves; any other character is named by its code point.             *)

\* [\x00-\x08\x0b\x0c\x0e-\x1f\x7f]
ControlChars == {"U+0007"}
\* [a-z]
LowerCase == {"a", "l", "x"}
\* [A-Za-z0-9]
AsciiAlnum == LowerCase \cup {"I", "A", "D", "1"}
\* [IVXLCDMivxlcdm]
RomanLetters == {"I", "D", "l", "x"}
\* [Ⅰ-ↈ]
RomanNumerals == {"U+2161"}
\* [぀-ゟ]
Hiragana == {"U+306E"}
\* [゠-ヿ]
Katakana == {"U+30C6", "U+30B9", "U+30C8"}
\* [一-鿿]
Kanji == {"U+65E5", "U+8A9E", "U+672C", "U+6E2C", "U+8A66"}
\* [぀-ヿ一-鿿]
Cjk == Hiragana \cup Katakana \cup Kanji
\* the Japanese punctuation class of lines 307-308
JapanesePunctuation == {"U+3002", "U+300C", "U+FF08", "U+FF09"}
\* the symbol class of lines 311-312
SpecialSymbols == {"U+2605"}
\* [.,!?;:\)]
ClosingPunctuation == {".", ")"}
\* \s, which is also what str.strip() removes
WhiteSpace == {" ", "\t", "\n", "U+3000"}
\* first index from i on that holds no character of class, Len(text)+1 if none
RECURSIVE run_end(_, _, _)
run_end(text, i, class) ==
    IF i <= Len(text) /\ text[i] \in class
    THEN run_end(text, i + 1, class)
    ELSE i

\* re.sub(r'[class]', '', text)
remove_chars(text, class) == SelectSeq(text, LAMBDA c : c \notin class)

\* re.sub(r'(?<=[a-z])I(?=[a-z])', 'l', text)
fix_I_inside(text) ==
    [i \in 1..Len(text) |->
        IF /\ text[i] = "I"
           /\ i > 1 /\ text[i - 1] \in LowerCase
           /\ i < Len(text) /\ text[i + 1] \in LowerCase
        THEN "l" ELSE text[i]]

\* re.sub(r'(?<=[a-z])I(?=\s|$|[.,!?;:\)])', 'l', text)
fix_I_at_end(text) ==
    [i \in 1..Len(text) |->
        IF /\ text[i] = "I"
           /\ i > 1 /\ text[i - 1] \in LowerCase
           /\ \/ i = Len(text)
              \/ text[i + 1] \in WhiteSpace \cup ClosingPunctuation
        THEN "l" ELSE text[i]]

\* re.sub(r'([before])\s([after])', r'\1\2', text): a gap of one white-space
\* character only
RECURSIVE close_gaps_one_space_from(_, _, _, _)
close_gaps_one_space_from(text, i, before, after) ==
    IF i > Len(text) THEN <<>>
    ELSE IF /\ text[i] \in before
            /\ i + 2 <= Len(text)
            /\ text[i + 1] \in WhiteSpace /\ text[i + 2] \in after
         THEN <<text[i], text[i + 2]>>
                  \o close_gaps_one_space_from(text, i + 3, before, after)
         ELSE <<text[i]>>
                  \o close_gaps_one_space_from(text, i + 1, before, after)

\* re.sub(r'([before])\s+([after])', r'\1\2', text), scanning from index i:
\* matches are taken leftmost and do not overlap, so the character that
\* closes one match cannot open the next
RECURSIVE close_gaps_from(_, _, _, _)
close_gaps_from(text, i, before, after) ==
    IF i > Len(text) THEN <<>>
    ELSE LET k == run_end(text, i + 1, WhiteSpace)
         IN IF /\ text[i] \in before
               /\ k > i + 1 /\ k <= Len(text) /\ text[k] \in after
            THEN <<text[i], text[k]>> \o close_gaps_from(text, k + 1, before, after)
            ELSE <<text[i]>> \o close_gaps_from(text, i + 1, before, after)

close_gaps(text, before, after) == close_gaps_from(text, 1, before, after)

\* the roman-numeral connector of lines 320-324, scanning from index i: after
\* a character of [A-Za-z0-9] or CJK, white space, a whole word of roman
\* numerals of one kind, white space, and before such a character again
RECURSIVE roman_connectors_from(_, _)
roman_connectors_from(text, i) ==
    IF i > Len(text) THEN <<>>
    ELSE LET k == run_end(text, i + 1, WhiteSpace)
             r == IF k <= Len(text) /\ text[k] \in RomanNumerals
                  THEN run_end(text, k, RomanNumerals)
                  ELSE run_end(text, k, RomanLetters)
             m == run_end(text, r, WhiteSpace)
         IN IF /\ text[i] \in AsciiAlnum \cup Cjk
               /\ k > i + 1 /\ r > k /\ m > r
               /\ m <= Len(text) /\ text[m] \in AsciiAlnum \cup Cjk
            THEN <<text[i], "]", "[">> \o roman_connectors_from(text, m)
            ELSE <<text[i]>> \o roman_connectors_from(text, i + 1)

\* re.sub(r'[class]+', to, text), scanning from index i
RECURSIVE squeeze_from(_, _, _, _, _)
squeeze_from(text, i, class, least, to) ==
    IF i > Len(text) THEN <<>>
    ELSE LET k == run_end(text, i, class)
         IN IF k - i >= least
            THEN <<to>> \o squeeze_from(text, k, class, least, to)
            ELSE <<text[i]>> \o squeeze_from(text, i + 1, class, least, to)

\* last index down from j, not below first, that holds no white space
RECURSIVE strip_end(_, _, _)
strip_end(text, first, j) ==
    IF j >= first /\ text[j] \in WhiteSpace
    THEN strip_end(text, first, j - 1)
    ELSE j

\* str.strip()
strip(text) ==
    LET first == run_end(text, 1, WhiteSpace)
    IN SubSeq(text, first, strip_end(text, first, Len(text)))

\* the three passes of lines 326-328
RECURSIVE merge_cjk(_, _)
merge_cjk(text, passes) ==
    IF passes = 0 THEN text
    ELSE merge_cjk(close_gaps(text, Cjk, Cjk), passes - 1)

\* clean_ocr_text without the repeated passes of lines 326-328
clean_ocr_text_once(text) ==
    LET t1 == remove_chars(text, ControlChars)
        t2 == fix_I_inside(t1)
        t3 == fix_I_at_end(t2)
        t4 == fix_I_inside(t3)
        t5 == close_gaps(t4, Hiragana, Hiragana)
        t6 == close_gaps(t5, Katakana, Katakana)
        t7 == close_gaps(t6, Kanji, Kanji)
        t8 == close_gaps(t7, Hiragana, Katakana)
        t9 == close_gaps(t8, Katakana, Hiragana)
        t10 == close_gaps(t9, Hiragana \cup Katakana, Kanji)
        t11 == close_gaps(t10, Kanji, Hiragana \cup Katakana)
        t12 == close_gaps(t11, Cjk, JapanesePunctuation)
        t13 == close_gaps(t12, JapanesePunctuation, Cjk)
        t14 == close_gaps(t13, Cjk, SpecialSymbols)
        t15 == close_gaps(t14, SpecialSymbols, Cjk)
        t16 == close_gaps(t15, AsciiAlnum, Cjk)
        t17 == close_gaps(t16, Cjk, AsciiAlnum)
        t18 == roman_connectors_from(t17, 1)
        t20 == squeeze_from(t18, 1, {" ", "\t"}, 1, " ")
        t21 == squeeze_from(t20, 1, {"\n"}, 2, "\n")
    IN strip(t21)

\* OCRWorker.clean_ocr_text
clean_ocr_text(text) ==
    LET t1 == remove_chars(text, ControlChars)
        t2 == fix_I_inside(t1)
        t3 == fix_I_at_end(t2)
        t4 == fix_I_inside(t3)
        t5 == close_gaps(t4, Hiragana, Hiragana)
        t6 == close_gaps(t5, Katakana, Katakana)
        t7 == close_gaps(t6, Kanji, Kanji)
        t8 == close_gaps(t7, Hiragana, Katakana)
        t9 == close_gaps(t8, Katakana, Hiragana)
        t10 == close_gaps(t9, Hiragana \cup Katakana, Kanji)
        t11 == close_gaps(t10, Kanji, Hiragana \cup Katakana)
        t12 == close_gaps(t11, Cjk, JapanesePunctuation)
        t13 == close_gaps(t12, JapanesePunctuation, Cjk)
        t14 == close_gaps(t13, Cjk, SpecialSymbols)
        t15 == close_gaps(t14, SpecialSymbols, Cjk)
        t16 == close_gaps(t15, AsciiAlnum, Cjk)
        t17 == close_gaps(t16, Cjk, AsciiAlnum)
        t18 == roman_connectors_from(t17, 1)
        t19 == merge_cjk(t18, 3)
        t20 == squeeze_from(t19, 1, {" ", "\t"}, 1, " ")
        t21 == squeeze_from(t20, 1, {"\n"}, 2, "\n")
    IN strip(t21)

---------------------------------------------------------------------------
(* The OCR worker: OCRWorker of one_sentence_ocr.py *)

\* largest number of language packs installed on a host
MaxPacks == 1
\* longest text the engine returns
MaxText == 2

LANGUAGE_MAP ==
    ("chi_sim+eng" :> "zh-Hans") @@
    ("chi_tra+eng" :> "zh-Hant") @@
    ("chi_sim+chi_tra+eng" :> "zh-Hans") @@
    ("chi_sim+chi_tra+jpn+eng" :> "zh-Hans") @@
    ("jpn+eng" :> "ja") @@
    ("eng" :> "en") @@
    ("kor+eng" :> "ko")

\* values of ocr_language in config.ini: the mapped ones and one that is not
Preferences == DOMAIN LANGUAGE_MAP \cup {"deu+eng"}

\* the two language buttons of OCRWindow
ButtonLanguages == {"chi_sim+eng", "jpn+eng"}

\* every tag perform_ocr can ask the engine about
Tags == {"zh-Hans", "zh-Hant", "zh-CN", "zh-TW", "ja", "en", "ko"}

\* installed language packs of a host
Hosts == { S \in SUBSET Tags : Cardinality(S) <= MaxPacks }

\* tags for which Language(lang) or is_language_supported raises
FaultySets == { {} } \cup { {t} : t \in Tags }

\* what the engine returns as result.text
OcrAlphabet == {"a", " ", "\n", "U+65E5"}
RECURSIVE TextsUpTo(_)
TextsUpTo(n) ==
    IF n = 0 THEN { <<>> }
    ELSE LET shorter == TextsUpTo(n - 1)
         IN shorter \cup { Append(t, c) : t \in shorter, c \in OcrAlphabet }
Texts == TextsUpTo(MaxText)

\* str(e) of what the engine raises
EngineErrors == {"The parameter is incorrect.", "Class not registered"}

\* how winocr.recognize_pil ends: it raises, returns no result, or a result
Outcomes ==
    { [kind |-> "raised", value |-> <<e>>] : e \in EngineErrors }
    \cup { [kind |-> "None", value |-> <<>>] }
    \cup { [kind |-> "result", value |-> t] : t \in Texts }

\* the image argument: a PIL image or anything else
Images == {"PIL.Image", "other"}

\* one call of the engine as the worker sees it
EngineCall(op, lang, result, value) ==
    [op |-> op, lang |-> lang, result |-> result, value |-> value]

\* OCRWorker._get_windows_language
get_windows_language(language) ==
    IF language \in DOMAIN LANGUAGE_MAP THEN LANGUAGE_MAP[language] ELSE "zh-Hans"

\* a slip: the last branch tries the Chinese variants before English
candidates_chinese_first(win_lang) ==
    <<win_lang>> \o
    ( IF win_lang = "zh-Hans" THEN <<"zh-Hant", "zh-CN", "zh-TW", "ja", "en">>
      ELSE IF win_lang = "zh-Hant" THEN <<"zh-Hans", "zh-TW", "zh-CN", "ja", "en">>
      ELSE IF win_lang = "ja" THEN <<"zh-Hans", "zh-Hant", "en">>
      ELSE <<"zh-Hans", "zh-Hant", "en">> )

\* a slip: Japanese falls back to English first
candidates_ja_english_first(win_lang) ==
    <<win_lang>> \o
    ( IF win_lang = "zh-Hans" THEN <<"zh-Hant", "zh-CN", "zh-TW", "ja", "en">>
      ELSE IF win_lang = "zh-Hant" THEN <<"zh-Hans", "zh-TW", "zh-CN", "ja", "en">>
      ELSE IF win_lang = "ja" THEN <<"en", "zh-Hans", "zh-Hant">>
      ELSE <<"en", "zh-Hans", "zh-Hant">> )

\* a slip: Japanese does not fall back to English
candidates_ja_no_english(win_lang) ==
    <<win_lang>> \o
    ( IF win_lang = "zh-Hans" THEN <<"zh-Hant", "zh-CN", "zh-TW", "ja", "en">>
      ELSE IF win_lang = "zh-Hant" THEN <<"zh-Hans", "zh-TW", "zh-CN", "ja", "en">>
      ELSE IF win_lang = "ja" THEN <<"zh-Hans", "zh-Hant">>
      ELSE <<"en", "zh-Hans", "zh-Hant">> )

\* lines 359-369: the primary tag and its fallbacks
candidates(win_lang) ==
    <<win_lang>> \o
    ( IF win_lang = "zh-Hans" THEN <<"zh-Hant", "zh-CN", "zh-TW", "ja", "en">>
      ELSE IF win_lang = "zh-Hant" THEN <<"zh-Hans", "zh-TW", "zh-CN", "ja", "en">>
      ELSE IF win_lang = "ja" THEN <<"zh-Hans", "zh-Hant", "en">>
      ELSE <<"en", "zh-Hans", "zh-Hant">> )

\* a slip: a raising query ends the search
RECURSIVE find_available_raise_stops(_, _, _, _)
find_available_raise_stops(langs, i, packs, faulty) ==
    IF i > Len(langs) THEN [queries |-> <<>>, available_lang |-> None]
    ELSE IF langs[i] \in faulty
    THEN [queries |-> <<EngineCall("is_language_supported", langs[i], "raised", <<>>)>>,
          available_lang |-> None]
    ELSE IF langs[i] \in packs
    THEN [queries |-> <<EngineCall("is_language_supported", langs[i], "True", <<>>)>>,
          available_lang |-> langs[i]]
    ELSE LET rest == find_available_raise_stops(langs, i + 1, packs, faulty)
         IN [queries |-> <<EngineCall("is_language_supported", langs[i], "False", <<>>)>>
                         \o rest.queries,
             available_lang |-> rest.available_lang]

\* lines 372-379 from candidate i on: the queries made and the tag found
RECURSIVE find_available(_, _, _, _)
find_available(langs, i, packs, faulty) ==
    IF i > Len(langs) THEN [queries |-> <<>>, available_lang |-> None]
    ELSE IF langs[i] \in faulty
    THEN LET rest == find_available(langs, i + 1, packs, faulty)
         IN [queries |-> <<EngineCall("is_language_supported", langs[i], "raised", <<>>)>>
                         \o rest.queries,
             available_lang |-> rest.available_lang]
    ELSE IF langs[i] \in packs
    THEN [queries |-> <<EngineCall("is_language_supported", langs[i], "True", <<>>)>>,
          available_lang |-> langs[i]]
    ELSE LET rest == find_available(langs, i + 1, packs, faulty)
         IN [queries |-> <<EngineCall("is_language_supported", langs[i], "False", <<>>)>>
                         \o rest.queries,
             available_lang |-> rest.available_lang]

\* the messages of lines 348, 382-388, 409 and 414, as lines of text
InvalidImageMessage == <<"Error: Invalid image format">>
NoLanguagePackMessage ==
    << "Error: No OCR language pack installed.", "\n", "\n",
       "Please install a language pack by running PowerShell as Administrator:", "\n",
       "Add-WindowsCapability -Online -Name \"Language.OCR~~~zh-TW~0.0.1.0\"", "\n",
       "or", "\n",
       "Add-WindowsCapability -Online -Name \"Language.OCR~~~zh-CN~0.0.1.0\"" >>
NoTextDetected == <<"No text detected">>
OcrErrorMessage(e) ==
    << "OCR Error: ", e, "\n",
       "Traceback (most recent call last):", "\n", e, "\n" >>

\* lines 404-409: the text made of the engine's result
extract_text(outcome) ==
    IF outcome.kind = "result" /\ outcome.value # <<>>
    THEN clean_ocr_text(outcome.value)
    ELSE NoTextDetected

\* a slip: with no supported tag the primary tag is used
OCRWorker_perform_ocr_try_primary(image, faulty, outcome) ==
    IF image # "PIL.Image"
    THEN /\ emitted' = Append(emitted, InvalidImageMessage)
         /\ UNCHANGED <<languages_to_try, calls>>
    ELSE LET win_lang == get_windows_language(ocr_language)
             langs == candidates(win_lang)
             found == find_available(langs, 1, supported, faulty)
             lang == IF found.available_lang = None THEN win_lang
                     ELSE found.available_lang
         IN /\ languages_to_try' = langs
            /\ calls' = found.queries
                  \o <<EngineCall("recognize_pil", lang, outcome.kind, outcome.value)>>
            /\ emitted' = Append(emitted,
                  IF outcome.kind = "raised"
                  THEN OcrErrorMessage(outcome.value[1])
                  ELSE extract_text(outcome))

\* a slip: a failed recognition is tried once more
OCRWorker_perform_ocr_retry(image, faulty, outcome) ==
    IF image # "PIL.Image"
    THEN /\ emitted' = Append(emitted, InvalidImageMessage)
         /\ UNCHANGED <<languages_to_try, calls>>
    ELSE LET win_lang == get_windows_language(ocr_language)
             langs == candidates(win_lang)
             found == find_available(langs, 1, supported, faulty)
             once == <<EngineCall("recognize_pil", found.available_lang,
                                  outcome.kind, outcome.value)>>
         IN /\ languages_to_try' = langs
            /\ IF found.available_lang = None
               THEN /\ calls' = found.queries
                    /\ emitted' = Append(emitted, NoLanguagePackMessage)
               ELSE /\ calls' = found.queries \o once
                         \o (IF outcome.kind = "raised" THEN once ELSE <<>>)
                    /\ emitted' = Append(emitted,
                          IF outcome.kind = "raised"
                          THEN OcrErrorMessage(outcome.value[1])
                          ELSE extract_text(outcome))

\* perform_ocr that returns without a message when no language pack is
\* installed
OCRWorker_perform_ocr_silent_no_pack(image, faulty, outcome) ==
    IF image # "PIL.Image"
    THEN /\ emitted' = Append(emitted, InvalidImageMessage)
         /\ UNCHANGED <<languages_to_try, calls>>
    ELSE LET win_lang == get_windows_language(ocr_language)
             langs == candidates(win_lang)
             found == find_available(langs, 1, supported, faulty)
         IN /\ languages_to_try' = langs
            /\ IF found.available_lang = None
               THEN /\ calls' = found.queries
                    /\ emitted' = emitted
               ELSE /\ calls' = found.queries
                         \o <<EngineCall("recognize_pil", found.available_lang,
                                         outcome.kind, outcome.value)>>
                    /\ emitted' = Append(emitted,
                          IF outcome.kind = "raised"
                          THEN OcrErrorMessage(outcome.value[1])
                          ELSE extract_text(outcome))

\* OCRWorker.perform_ocr: faulty and outcome are the engine's part
OCRWorker_perform_ocr(image, faulty, outcome) ==
    IF image # "PIL.Image"
    THEN /\ emitted' = Append(emitted, InvalidImageMessage)
         /\ UNCHANGED <<languages_to_try, calls>>
    ELSE LET win_lang == get_windows_language(ocr_language)
             langs == candidates(win_lang)
             found == find_available(langs, 1, supported, faulty)
         IN /\ languages_to_try' = langs
            /\ IF found.available_lang = None
               THEN /\ calls' = found.queries
                    /\ emitted' = Append(emitted, NoLanguagePackMessage)
               ELSE /\ calls' = found.queries
                         \o <<EngineCall("recognize_pil", found.available_lang,
                                         outcome.kind, outcome.value)>>
                    /\ emitted' = Append(emitted,
                          IF outcome.kind = "raised"
                          THEN OcrErrorMessage(outcome.value[1])
                          ELSE extract_text(outcome))

\* OCRWorker.set_language, called by the language buttons
SetLanguage ==
    \E language \in ButtonLanguages :
        /\ ocr_language' = language
        /\ UNCHANGED <<selection_vars, screen, window_vars, supported, languages_to_try,
                       calls, emitted, tk_vars>>

\* one recognition request: the OCR thread runs perform_ocr to its end
PerformOcr ==
    \E image \in Images, faulty \in FaultySets, outcome \in Outcomes :
        /\ emitted = <<>>
        /\ OCRWorker_perform_ocr(image, faulty, outcome)
        /\ UNCHANGED <<selection_vars, screen, window_vars, ocr_language, supported, tk_vars>>

\* no selection window has been opened
SelectionClosed ==
    /\ screen = [w |-> ScreenW, h |-> ScreenH]
    /\ config = NoSelection
    /\ rect = QRect(0, 0, 0, 0)
    /\ dragging = FALSE
    /\ resizing = FALSE
    /\ resize_edge = None
    /\ drag_start = QPoint(0, 0)
    /\ cursor = "Arrow"
    /\ open = FALSE
    /\ screenshot = FALSE
    /\ workers = 0
    /\ started = 0
    /\ display = "none"
    /\ session = 0
    /\ nEvents = 0
    /\ ev = Event("none", NoPos, "")
    /\ begin = [rect |-> rect, pos |-> NoPos]

InitOcr ==
    /\ SelectionClosed
    /\ ocr_language \in Preferences
    /\ supported \in Hosts
    /\ languages_to_try = <<>>
    /\ calls = <<>>
    /\ emitted = <<>>
    /\ AppReady
    /\ WindowReady

NextOcr ==
    \/ SetLanguage
    \/ PerformOcr

SpecOcr == InitOcr /\ [][NextOcr]_vars

---------------------------------------------------------------------------
(* Properties of the OCR worker *)

\* the step just taken is a perform_ocr call that got past the image test
OcrStep == emitted = <<>> /\ emitted' # <<>> /\ languages_to_try' # <<>>

\* a perform_ocr call got past the image test
Performed == languages_to_try # <<>>

\* the support queries and the recognitions among engine calls c
QueriesOf(c) == SelectSeq(c, LAMBDA call : call.op = "is_language_supported")
RecognitionsOf(c) == SelectSeq(c, LAMBDA call : call.op = "recognize_pil")

\* among the fallbacks of list l tag a comes before every b, and b occurs
Before(l, a, b) ==
    /\ \E j \in DOMAIN l : j > 1 /\ l[j] = b
    /\ \E i \in DOMAIN l :
          /\ i > 1 /\ l[i] = a
          /\ \A j \in DOMAIN l : (j > 1 /\ l[j] = b) => i < j

\* C13: the candidate list begins with the tag the lookup table gives for the
\* preference, zh-Hans when the preference is not in the table; after zh-Hans
\* the fallbacks have traditional Chinese before Japanese before English;
\* after ja they have both Chinese variants before English.
C13_PrimaryFirst ==
    [][OcrStep =>
        LET l == languages_to_try'
        IN /\ ocr_language \in DOMAIN LANGUAGE_MAP => l[1] = LANGUAGE_MAP[ocr_language]
           /\ ocr_language \notin DOMAIN LANGUAGE_MAP => l[1] = "zh-Hans"
           /\ ocr_language = "chi_sim+eng" => l[1] = "zh-Hans"
           /\ ocr_language = "jpn+eng" => l[1] = "ja"
           /\ l[1] = "zh-Hans" => Before(l, "zh-Hant", "ja") /\ Before(l, "ja", "en")
           /\ l[1] = "ja" => Before(l, "zh-Hans", "en") /\ Before(l, "zh-Hant", "en")]_vars

\* a call was made under a preference that is not in the table
C13_Witness ==
    /\ ocr_language = "deu+eng"
    /\ Performed /\ languages_to_try[1] = "zh-Hans"
    /\ calls # <<>>

\* C14 as stated: whenever the primary tag is neither zh-Hans nor ja
\* (traditional Chinese included) the list is the primary tag, en, zh-Hans,
\* zh-Hant.
C14_AllOthers ==
    Performed =>
        LET l == languages_to_try
        IN l[1] \notin {"zh-Hans", "ja"} => l = <<l[1], "en", "zh-Hans", "zh-Hant">>

\* C14: whenever the primary tag is none of zh-Hans, zh-Hant and ja (English,
\* Korean) the list is the primary tag, en, zh-Hans, zh-Hant; for traditional
\* Chinese the list is zh-Hant, zh-Hans, zh-TW, zh-CN, ja, en.
C14_OthersButTraditional ==
    Performed =>
        LET l == languages_to_try
        IN /\ l[1] \notin {"zh-Hans", "zh-Hant", "ja"}
                => l = <<l[1], "en", "zh-Hans", "zh-Hant">>
           /\ l[1] = "zh-Hant"
                => l = <<"zh-Hant", "zh-Hans", "zh-TW", "zh-CN", "ja", "en">>

\* a call was made with Korean as the primary tag and every candidate asked
C14_Witness ==
    /\ Performed /\ languages_to_try[1] = "ko"
    /\ Len(QueriesOf(calls)) = 4

\* C15: support is queried in list order; a tag reported supported ends the
\* search, so it is the first such tag and nothing after it is queried; a
\* query that answers no or raises is followed by the next candidate; the
\* recognition uses the tag found.
C15_FirstSupported ==
    Performed =>
        LET q == QueriesOf(calls)
            r == RecognitionsOf(calls)
            l == languages_to_try
        IN /\ calls = q \o r
           /\ Len(q) <= Len(l)
           /\ \A i \in DOMAIN q :
                 /\ q[i].lang = l[i]
                 /\ q[i].result = "True" => i = Len(q) /\ q[i].lang \in supported
                 /\ q[i].result = "False" => q[i].lang \notin supported
                 /\ (q[i].result # "True" /\ i < Len(l)) => Len(q) > i
           /\ r # <<>> => /\ q # <<>>
                          /\ q[Len(q)].result = "True"
                          /\ r[1].lang = q[Len(q)].lang

\* the first query raised, the second answered no, the third yes, and the
\* recognition followed
C15_Witness ==
    /\ Len(calls) = 4
    /\ calls[1].result = "raised"
    /\ calls[2].result = "False"
    /\ calls[3].result = "True"
    /\ calls[4].op = "recognize_pil" /\ calls[4].lang = languages_to_try[3]

\* C16: when the host supports no tag of the candidate list, the one message
\* emitted is the no-language-pack message, it names a language pack to
\* install, and recognize_pil is not called.
C16_NoneSupported ==
    (Performed /\ \A i \in DOMAIN languages_to_try : languages_to_try[i] \notin supported)
    => /\ emitted = <<NoLanguagePackMessage>>
       /\ \E i \in DOMAIN emitted[1] :
             emitted[1][i] \in
                { "Add-WindowsCapability -Online -Name \"Language.OCR~~~zh-TW~0.0.1.0\"",
                  "Add-WindowsCapability -Online -Name \"Language.OCR~~~zh-CN~0.0.1.0\"" }
       /\ RecognitionsOf(calls) = <<>>

\* a host with a pack that is no candidate: all six candidates were asked
C16_Witness ==
    /\ Performed /\ supported = {"ko"}
    /\ languages_to_try[1] = "zh-Hans"
    /\ Len(calls) = 6
    /\ emitted = <<NoLanguagePackMessage>>

\* C17 as stated: preference jpn+eng on a host with English only ends with
\* the no-language-pack message and without a recognition.
C17_EnglishOnlyUnsupported ==
    [][(OcrStep /\ ocr_language = "jpn+eng" /\ supported = {"en"})
       => /\ emitted' = <<NoLanguagePackMessage>>
          /\ RecognitionsOf(calls') = <<>>]_vars

\* C17: preference jpn+eng on a host with English only asks ja, zh-Hans,
\* zh-Hant and en, and unless the query for en raises it recognises with en
\* and emits no no-language-pack message; under jpn+eng that message is
\* emitted only when none of the four queries answered yes.
C17_EnglishSelected ==
    [][(OcrStep /\ ocr_language = "jpn+eng")
       => LET q == QueriesOf(calls')
              r == RecognitionsOf(calls')
          IN /\ supported = {"en"}
                => /\ Len(q) = 4
                   /\ q[4].lang = "en"
                   /\ q[4].result # "raised"
                        => /\ Len(r) = 1 /\ r[1].lang = "en"
                           /\ emitted' # <<NoLanguagePackMessage>>
             /\ emitted' = <<NoLanguagePackMessage>>
                => /\ Len(q) = 4
                   /\ \A i \in DOMAIN q : q[i].result # "True"]_vars

\* Japanese was the primary tag, English the only pack, and the engine
\* recognised with en
C17_Witness ==
    /\ Performed /\ languages_to_try[1] = "ja" /\ supported = {"en"}
    /\ Len(calls) = 5
    /\ calls[5].op = "recognize_pil" /\ calls[5].lang = "en"
    /\ calls[5].result = "result"

\* C18: recognize_pil is called at most once in a perform_ocr call, as the
\* last engine call, right after the query that answered yes and with that
\* tag; a recognition that raises is followed by no further engine call and
\* by one message.
C18_RecognizedOnce ==
    /\ Len(RecognitionsOf(calls)) <= 1
    /\ Len(emitted) <= 1
    /\ \A i \in DOMAIN calls :
          calls[i].op = "recognize_pil"
          => /\ i = Len(calls)
             /\ i > 1
             /\ calls[i - 1].op = "is_language_supported"
             /\ calls[i - 1].result = "True"
             /\ calls[i - 1].lang = calls[i].lang
             /\ Len(emitted) = 1

\* a recognition with a fallback tag raised
C18_Witness ==
    /\ Len(calls) >= 3
    /\ calls[Len(calls)].op = "recognize_pil"
    /\ calls[Len(calls)].result = "raised"
    /\ calls[Len(calls)].lang # languages_to_try[1]

\* the engine returned a result whose text is empty or all white space
BlankResult ==
    \E i \in DOMAIN calls :
        /\ calls[i].op = "recognize_pil"
        /\ calls[i].result = "result"
        /\ \A k \in DOMAIN calls[i].value : calls[i].value[k] \in WhiteSpace

\* C19: when the recognition returns text that is empty or all white space,
\* the message emitted is "No text detected".
C19_BlankIsSentinel ==
    BlankResult => emitted = <<NoTextDetected>>

---------------------------------------------------------------------------
(* The Tk application: App of main.py. capture_region starts a thread that *)
(* runs run_ocr; run_ocr hands a callback to the Tk main loop with         *)
(* root.after; the main loop runs the callbacks in order.                  *)

\* how asyncio.run(ocr_pil_image(image)) ends: it raises, or returns
\* result.text or ""
TkOutcomes ==
    { [kind |-> "raised", value |-> <<e>>] : e \in EngineErrors }
    \cup { [kind |-> "result", value |-> t] : t \in Texts }

\* sizes of the overlay handed to capture_region
OverlaySizes == {4, 40}

\* a callback handed to root.after: the function it calls, the text it was
\* built with, and (history) what run_ocr caught when it built it
Callback(fn, text, caught) == [fn |-> fn, text |-> text, caught |-> caught]

\* App.on_ocr_done
on_ocr_done(text) ==
    LET cleaned == strip(text)
    IN IF cleaned = <<>>
       THEN /\ status_var' = <<"No text detected">>
            /\ UNCHANGED clipboard
       ELSE /\ clipboard' = <<cleaned>>
            /\ status_var' = <<"Text copied to clipboard">>

\* App.capture_region: the overlay was confirmed with this size
TkCaptureRegion ==
    \E width \in OverlaySizes, height \in OverlaySizes :
        /\ ocr_thread = "idle" /\ after_queue = <<>>
        /\ IF width < 5 \/ height < 5
           THEN /\ status_var' = <<"Selection too small">>
                /\ UNCHANGED ocr_thread
           ELSE /\ status_var' = <<"Capturing...">>
                /\ ocr_thread' = "run_ocr"
        /\ UNCHANGED <<selection_vars, screen, window_vars, ocr_vars, clipboard, after_queue,
                       exc, reported>>

\* App.run_ocr up to its call of root.after (lines 205-208 and 210); in the
\* except block the name exc is bound and the callback refers to that name
TkRunOcr ==
    \E outcome \in TkOutcomes :
        /\ ocr_thread = "run_ocr"
        /\ IF outcome.kind = "raised"
           THEN /\ exc' = outcome.value
                /\ after_queue' = Append(after_queue,
                                         Callback("status_var.set", <<>>, outcome.value))
                /\ ocr_thread' = "except"
           ELSE /\ after_queue' = Append(after_queue,
                                         Callback("on_ocr_done", outcome.value, <<>>))
                /\ ocr_thread' = "idle"
                /\ UNCHANGED exc
        /\ UNCHANGED <<selection_vars, screen, window_vars, ocr_vars, status_var, clipboard,
                       reported>>

\* App.run_ocr leaves its except block (line 209): Python unbinds the name
\* of an "except ... as" clause at the end of the block
TkLeaveExcept ==
    /\ ocr_thread = "except"
    /\ exc' = Unbound
    /\ ocr_thread' = "idle"
    /\ UNCHANGED <<selection_vars, screen, window_vars, ocr_vars, status_var, clipboard,
                   after_queue, reported>>

\* the Tk main loop runs the oldest callback; one that raises is reported by
\* Tk on stderr and changes nothing else
TkCallback ==
    /\ after_queue # <<>>
    /\ after_queue' = Tail(after_queue)
    /\ IF Head(after_queue).fn = "on_ocr_done"
       THEN /\ on_ocr_done(Head(after_queue).text)
            /\ UNCHANGED reported
       ELSE IF exc # Unbound
       THEN /\ status_var' = <<"OCR failed: ", exc[1]>>
            /\ UNCHANGED <<clipboard, reported>>
       ELSE /\ reported' = reported \cup {"NameError"}
            /\ UNCHANGED <<status_var, clipboard>>
    /\ UNCHANGED <<selection_vars, screen, window_vars, ocr_vars, exc, ocr_thread>>

InitTk ==
    /\ SelectionClosed
    /\ WorkerReady
    /\ AppReady
    /\ WindowReady

NextTk ==
    \/ TkCaptureRegion
    \/ TkRunOcr
    \/ TkLeaveExcept
    \/ TkCallback

SpecTk == InitTk /\ [][NextTk]_vars

\* the main loop just ran the callback of a run_ocr whose recognition raised
FailureCallbackStep ==
    /\ after_queue # <<>>
    /\ Head(after_queue).fn = "status_var.set"
    /\ after_queue' = Tail(after_queue)

\* C20: when the recognition raises, the caller is told: the status shown
\* after the callback of that run is "OCR failed: " followed by the message
\* of the exception, no error is lost inside the callback, and no text is
\* put on the clipboard.
C20_ErrorDelivered ==
    [][FailureCallbackStep
       => /\ status_var' = <<"OCR failed: ", Head(after_queue).caught[1]>>
          /\ reported' = reported
          /\ clipboard' = clipboard]_vars

---------------------------------------------------------------------------
(* The result window: OCRWindow.display_result and _normalize_brackets *)

\* the table of lines 900-922 in its order: glyph, replacement
mapping ==
    <<
       <<"U+FF08", "(">>, <<"U+FF09", ")">>, <<"U+FE59", "(">>, <<"U+FE5A", ")">>,
       <<"U+FE35", "(">>, <<"U+FE36", ")">>, <<"U+2768", "(">>, <<"U+2769", ")">>,
       <<"U+276A", "(">>, <<"U+276B", ")">>, <<"U+FF3B", "[">>, <<"U+FF3D", "]">>,
       <<"U+3010", "[">>, <<"U+3011", "]">>, <<"U+3014", "[">>, <<"U+3015", "]">>,
       <<"U+FF5B", "{">>, <<"U+FF5D", "}">>, <<"U+3016", "[">>, <<"U+3017", "]">>,
       <<"U+300A", "<">>, <<"U+300B", ">">>, <<"U+3008", "<">>, <<"U+3009", ">">>,
       <<"U+27E8", "<">>, <<"U+27E9", ">">>, <<"U+FF1C", "<">>, <<"U+FF1E", ">">>,
       <<"U+300C", "\"">>, <<"U+300D", "\"">>, <<"U+300E", "\"">>, <<"U+300F", "\"">>,
       <<"U+201C", "\"">>, <<"U+201D", "\"">>, <<"U+2018", "'">>, <<"U+2019", "'">>,
       <<"U+FF0C", ",">>, <<"U+FF1A", ":">>, <<"U+FF1B", ";">>, <<"U+FF1F", "?">>,
       <<"U+FF01", "!">>, <<"U+FF0D", "-">>, <<"U+2014", "-">>, <<"U+2012", "-">>,
       <<"U+2013", "-">>, <<"U+301C", "~">>, <<"U+FF5E", "~">>, <<"U+FF0F", "/">>,
       <<"U+FF3C", "\\">>, <<"U+FE5D", "[">>, <<"U+FE5E", "]">>, <<"U+FE5B", "{">>,
       <<"U+FE5C", "}">>
    >>

\* lines 924-925 for one character, from entry k of the table on: every
\* key and value is one character, so text.replace(k, v) acts on each
\* character by itself
RECURSIVE replaced_from(_, _)
replaced_from(c, k) ==
    IF k > Len(mapping) THEN c
    ELSE replaced_from(IF c = mapping[k][1] THEN mapping[k][2] ELSE c, k + 1)

\* text.replace(k, v, 1) in line 925: only the first occurrence of a glyph
\* is replaced
replace_first(text) ==
    [i \in 1..Len(text) |->
        IF \E j \in 1..(i - 1) : text[j] = text[i]
        THEN text[i] ELSE replaced_from(text[i], 1)]

\* lines 924-925
replace_all(text) == [i \in 1..Len(text) |-> replaced_from(text[i], 1)]

\* re.sub(r"opener\s+", opener, text), scanning from index i
RECURSIVE strip_after_from(_, _, _)
strip_after_from(text, i, opener) ==
    IF i > Len(text) THEN <<>>
    ELSE IF text[i] = opener
    THEN <<opener>> \o strip_after_from(text, run_end(text, i + 1, WhiteSpace), opener)
    ELSE <<text[i]>> \o strip_after_from(text, i + 1, opener)

\* lines 936-939 left out: the text from index i on as it is
keep_before_from(text, i, closer) == SubSeq(text, i, Len(text))

\* re.sub(r"\s+closer", closer, text), scanning from index i
RECURSIVE strip_before_from(_, _, _)
strip_before_from(text, i, closer) ==
    IF i > Len(text) THEN <<>>
    ELSE LET k == run_end(text, i, WhiteSpace)
         IN IF k > i /\ k <= Len(text) /\ text[k] = closer
            THEN <<closer>> \o strip_before_from(text, k + 1, closer)
            ELSE <<text[i]>> \o strip_before_from(text, i + 1, closer)

\* OCRWindow._normalize_brackets
normalize_brackets(text) ==
    IF text = <<>> THEN text
    ELSE LET t0 == replace_all(text)
             t1 == strip_after_from(t0, 1, "(")
             t2 == strip_after_from(t1, 1, "[")
             t3 == strip_after_from(t2, 1, "{")
             t4 == strip_after_from(t3, 1, "<")
             t5 == strip_before_from(t4, 1, ")")
             t6 == strip_before_from(t5, 1, "]")
             t7 == strip_before_from(t6, 1, "}")
             t8 == strip_before_from(t7, 1, ">")
         IN t8

\* lines 864-872: the text display_result puts into text_display
displayed(text, no_newlines, brackets) ==
    LET t1 == IF no_newlines THEN remove_chars(text, {"\n"}) ELSE text
    IN IF brackets THEN normalize_brackets(t1) ELSE t1

\* OCRWindow.display_result
display_result(text) ==
    LET shown == displayed(text, remove_newlines, force_brackets)
    IN /\ result_text' = shown
       /\ pyperclip' = IF strip(shown) # <<>> THEN <<shown>> ELSE pyperclip

---------------------------------------------------------------------------
(* From confirm to display: each confirmed session starts a thread that    *)
(* runs OCRWorker.perform_ocr; the worker's ocr_complete signal is queued  *)
(* to the window's thread, where display_result handles it.                *)

\* hosts of this part: no language pack, or the one for zh-Hans
DeliverHosts == { {}, {"zh-Hans"} }

\* how recognize_pil ends in this part: it raises, returns no result, or a
\* result of at most one character
DeliverOutcomes ==
    { o \in Outcomes : Len(o.value) <= 1 }

\* an OCR thread runs perform_ocr to its end; the image is the PIL image
\* SelectionWindow.perform_ocr made
RunWorker ==
    \E outcome \in DeliverOutcomes :
        /\ workers > 0
        /\ workers' = workers - 1
        /\ OCRWorker_perform_ocr("PIL.Image", {}, outcome)
        /\ UNCHANGED <<rect, dragging, resizing, resize_edge, drag_start,
                       cursor, open, screenshot, config, started, display,
                       session, nEvents, ev, begin, screen, ocr_language,
                       supported, tk_vars, window_vars>>

\* the window's event loop hands the oldest queued ocr_complete message to
\* display_result
DisplayResult ==
    /\ emitted # <<>>
    /\ display_result(Head(emitted))
    /\ display' = "result"
    /\ emitted' = Tail(emitted)
    /\ delivered' = delivered + 1
    /\ UNCHANGED <<rect, dragging, resizing, resize_edge, drag_start, cursor,
                   open, screenshot, config, workers, started, session,
                   nEvents, ev, begin, screen, ocr_language, supported,
                   languages_to_try, calls, tk_vars, remove_newlines,
                   force_brackets>>

\* OCRWindow.toggle_remove_newlines
ToggleRemoveNewlines ==
    /\ remove_newlines' = ~remove_newlines
    /\ UNCHANGED <<selection_vars, screen, ocr_vars, tk_vars, force_brackets,
                   result_text, pyperclip, delivered>>

\* OCRWindow.set_force_brackets
SetForceBrackets ==
    \E force \in BOOLEAN :
        /\ force_brackets' = force
        /\ UNCHANGED <<selection_vars, screen, ocr_vars, tk_vars,
                       remove_newlines, result_text, pyperclip, delivered>>

InitDeliver ==
    /\ SelectionClosed
    /\ ocr_language = "chi_sim+eng"
    /\ supported \in DeliverHosts
    /\ languages_to_try = <<>>
    /\ calls = <<>>
    /\ emitted = <<>>
    /\ AppReady
    /\ remove_newlines \in BOOLEAN
    /\ force_brackets \in BOOLEAN
    /\ result_text = <<>>
    /\ pyperclip = <<>>
    /\ delivered = 0

NextDeliver ==
    \/ StartCapture
    \/ ScreenshotReady
    \/ KeyPress
    \/ RunWorker
    \/ DisplayResult
    \/ ToggleRemoveNewlines
    \/ SetForceBrackets

\* a step of display_result, the slot of ocr_complete
DeliveryStep == delivered' = delivered + 1

\* threads get to run, and the event loop handles what is queued: a message
\* that is waiting is delivered (only DisplayResult makes such a step)
SpecDeliver ==
    /\ InitDeliver /\ [][NextDeliver]_vars
    /\ WF_vars(RunWorker)
    /\ WF_delivered(emitted # <<>> /\ DeliveryStep)


\* ---------------------------------------------------------------------
\* Delivery of messages to the result window

\* the messages perform_ocr emits when it could not recognize: the image
\* was not a PIL image, no language pack is installed, or the engine raised
FailureMessages ==
    {InvalidImageMessage, NoLanguagePackMessage}
        \cup { OcrErrorMessage(e) : e \in EngineErrors }

\* C21: a language-unsupported or recognition failure message is shown
\* verbatim: what the result window displays after the delivery equals the
\* message character for character, whatever the strip-newlines and
\* force-brackets options are.
C21_FailureVerbatim ==
    [][ (DeliveryStep /\ Head(emitted) \in FailureMessages)
            => result_text' = Head(emitted) ]_vars

\* the step just taken handled Enter in a session whose screenshot had not
\* arrived (told from a background step by the change of the last event)
UnreadyConfirmStep ==
    /\ open /\ ~screenshot
    /\ ev'.kind = "key" /\ ev'.arg = "Return" /\ ev' # ev

\* the step just taken handled Enter and closed the session
ConfirmStep ==
    open /\ ~open' /\ ev'.kind = "key" /\ ev'.arg = "Return"

\* C22: Enter before the screenshot has arrived shows the capture-not-ready
\* error and does nothing else: the session stays open with its rectangle
\* and flags, no recognition is started and nothing is saved; as long as
\* the screenshot of the session is missing no step starts a recognition,
\* saves the rectangle, or closes the session other than by a cancellation;
\* and an Enter that closes the session (the later confirm) had the
\* screenshot, saved the rectangle and started one recognition.
C22_UnreadyConfirm ==
    [][/\ UnreadyConfirmStep
          => /\ display' = "not_ready"
             /\ open' /\ ~screenshot'
             /\ rect' = rect
             /\ dragging' = dragging /\ resizing' = resizing
             /\ resize_edge' = resize_edge
             /\ config' = config
             /\ started' = started /\ workers' = workers
       /\ (~screenshot /\ session' = session)
          => /\ started' = started /\ config' = config
             /\ (open /\ ~open') => CancelStep
       /\ ConfirmStep
          => /\ screenshot
             /\ config' = <<rect>>
             /\ started' = started + 1 /\ workers' = workers + 1
             /\ display' = "processing"]_vars

\* Enter came too early in a session, was answered by the error, and the
\* session is still open now that its screenshot has arrived
C22_Witness ==
    /\ open /\ screenshot
    /\ ev.kind = "key" /\ ev.arg = "Return"
    /\ display = "not_ready"
    /\ started = 0 /\ workers = 0

\* C23: at most one recognition is in flight: under every interleaving of
\* confirm, new capture and worker completion the number of OCR threads
\* that were started and have not yet finished is at most one.
C23_OneInFlight == workers <= 1

\* C24: every recognition started delivers exactly one message to the
\* display, whichever way the worker ends and whether or not a newer session
\* has been opened meanwhile: each recognition started is running, has its
\* one message waiting, or has had it displayed; the n-th recognition
\* started leads to an n-th delivery; and right after a delivery the result
\* window shows the text made of the message just delivered.
C24_OneMessageEach ==
    /\ [](started = workers + Len(emitted) + delivered)
    /\ [][DeliveryStep
            => /\ emitted' = Tail(emitted)
               /\ result_text' = displayed(Head(emitted), remove_newlines,
                                           force_brackets)]_vars
    /\ \A n \in 1..MaxSessions : (started >= n) ~> (delivered >= n)

\* two recognitions were started, the second one in a newer session, and
\* both messages have been displayed, the last one a recognized text
C24_Witness ==
    /\ session = 2 /\ started = 2 /\ delivered = 2
    /\ workers = 0 /\ emitted = <<>>
    /\ result_text = <<"U+65E5">>

---------------------------------------------------------------------------
(* The cleaning of recognized text: one recognition of a longer text *)

\* longest text of this part, and longest text of glyphs and spaces only
MaxClean == 4
MaxGap == 5

\* ASCII letters (one that is a roman-numeral letter, one that is not),
\* capital I, space, newline and a kanji
CleanAlphabet == {"a", "x", "I", " ", "\n", "U+65E5"}

\* glyphs of the three scripts and the space that separates them
GapAlphabet == {"U+65E5", "U+306E", "U+30C6", " "}

RECURSIVE TextsOver(_, _)
TextsOver(alphabet, n) ==
    IF n = 0 THEN { <<>> }
    ELSE LET shorter == TextsOver(alphabet, n - 1)
         IN shorter \cup { Append(t, c) : t \in shorter, c \in alphabet }

\* "日本 語 テスト"
ScenarioB ==
    <<"U+65E5", "U+672C", " ", "U+8A9E", " ", "U+30C6", "U+30B9", "U+30C8">>

\* what the engine reads in this part
CleanTexts ==
    TextsOver(CleanAlphabet, MaxClean) \cup TextsOver(GapAlphabet, MaxGap)
        \cup {ScenarioB}

\* one recognition: the engine returns a text and perform_ocr cleans it
Recognize ==
    \E text \in CleanTexts :
        /\ emitted = <<>>
        /\ OCRWorker_perform_ocr("PIL.Image", {},
                                 [kind |-> "result", value |-> text])
        /\ UNCHANGED <<selection_vars, screen, window_vars, ocr_language,
                       supported, tk_vars>>

InitClean ==
    /\ SelectionClosed
    /\ ocr_language = "chi_sim+eng"
    /\ supported = {"zh-Hans"}
    /\ languages_to_try = <<>>
    /\ calls = <<>>
    /\ emitted = <<>>
    /\ AppReady
    /\ WindowReady

NextClean == Recognize

SpecClean == InitClean /\ [][NextClean]_vars

\* the text the engine returned, and the message made of it
raw_text == calls[Len(calls)].value
cleaned == emitted[1]

\* a non-empty text has been recognized and cleaned
Cleaned == emitted # <<>> /\ raw_text # <<>>

RECURSIVE gap_from(_, _)
gap_from(text, i) ==
    IF i > Len(text) THEN FALSE
    ELSE LET k == run_end(text, i + 1, WhiteSpace)
         IN \/ /\ text[i] \in Cjk
               /\ k > i + 1 /\ k <= Len(text) /\ text[k] \in Cjk
            \/ gap_from(text, i + 1)

\* C26: no white space is left between two CJK glyphs: in the cleaned text
\* of any raw text, two glyphs of hiragana, katakana or kanji (in any
\* pairing) are never separated by white space only; and the raw text
\* "日本 語 テスト" is cleaned to "日本語テスト".
C26_NoGapBetweenCjk ==
    Cleaned => /\ ~gap_from(cleaned, 1)
               /\ raw_text = ScenarioB
                    => cleaned = <<"U+65E5", "U+672C", "U+8A9E",
                                   "U+30C6", "U+30B9", "U+30C8">>

\* the raw text of scenario B, which has two gaps, has been cleaned
C26_Witness ==
    Cleaned /\ raw_text = ScenarioB /\ gap_from(raw_text, 1)

---------------------------------------------------------------------------
(* Bracket normalization: one recognition of a text with brackets or       *)
(* glyphs of the table, and its display                                    *)

\* the glyphs of the table
TableGlyphs == { mapping[k][1] : k \in 1..Len(mapping) }

\* what stands next to a glyph: a letter, a space, a glyph of the table, a
\* kanji
Contexts == {"a", " ", "U+FF08", "U+6E2C"}

\* every glyph of the table by itself and in every context
TableTexts ==
    { <<g>> : g \in TableGlyphs }
        \cup { <<x, g, y>> : x \in Contexts, g \in TableGlyphs, y \in Contexts }

\* the four kinds of brackets, full-width and ASCII
Openers == {"U+FF08", "U+FF3B", "U+FF5B", "U+FF1C", "(", "[", "{", "<"}
Closers == {"U+FF09", "U+FF3D", "U+FF5D", "U+FF1E", ")", "]", "}", ">"}
Gaps == { <<>>, <<" ">>, <<" ", "\t">>, <<"\n">> }
Bodies == { <<"U+6E2C", "U+8A66">>, <<"a">> }

\* a bracketed body with white space inside the brackets
BracketTexts ==
    { <<o>> \o g1 \o b \o g2 \o <<c>> :
        o \in Openers, g1 \in Gaps, b \in Bodies, g2 \in Gaps, c \in Closers }

\* "（ 測試 ）"
ScenarioF == <<"U+FF08", " ", "U+6E2C", "U+8A66", " ", "U+FF09">>

\* one recognition: the engine returns a text and perform_ocr cleans it
RecognizeBrackets ==
    \E text \in TableTexts \cup BracketTexts :
        /\ calls = <<>>
        /\ OCRWorker_perform_ocr("PIL.Image", {},
                                 [kind |-> "result", value |-> text])
        /\ UNCHANGED <<selection_vars, screen, window_vars, ocr_language,
                       supported, tk_vars>>

InitShow ==
    /\ SelectionClosed
    /\ ocr_language = "chi_sim+eng"
    /\ supported = {"zh-Hans"}
    /\ languages_to_try = <<>>
    /\ calls = <<>>
    /\ emitted = <<>>
    /\ AppReady
    /\ remove_newlines \in BOOLEAN
    /\ force_brackets \in BOOLEAN
    /\ result_text = <<>>
    /\ pyperclip = <<>>
    /\ delivered = 0

NextShow ==
    \/ RecognizeBrackets
    \/ DisplayResult

SpecShow == InitShow /\ [][NextShow]_vars

\* the ASCII output of a glyph of the table, any other character is itself
TableOutput(c) ==
    IF c \in TableGlyphs
    THEN mapping[CHOOSE k \in 1..Len(mapping) : mapping[k][1] = c][2]
    ELSE c

\* the characters of a text that are not white space, in order
Visible(text) == SelectSeq(text, LAMBDA c : c \notin WhiteSpace)

\* C27: the bracket table is a total, context-free function: when a message
\* is displayed with force_brackets on, the text shown contains no glyph of
\* the table, and its characters other than white space are, one by one
\* and in order, the table outputs of the message's characters other than
\* white space: each glyph gives its one ASCII output whatever stands next
\* to it, and every other character is kept.
C27_TableContextFree ==
    [][(DeliveryStep /\ force_brackets)
          => /\ \A i \in 1..Len(result_text') :
                    result_text'[i] \notin TableGlyphs
             /\ Visible(result_text')
                  = [i \in 1..Len(Visible(Head(emitted)))
                        |-> TableOutput(Visible(Head(emitted))[i])]]_vars

\* a text with the same glyph twice and another glyph of the table between
\* has been displayed with force_brackets on
C27_Witness ==
    /\ delivered = 1 /\ force_brackets
    /\ raw_text = <<"U+FF08", "U+300D", "U+FF08">>
    /\ result_text = <<"(", "\"", "(">>

\* white space stands right after an opening bracket or right before a
\* closing bracket at some place of the text
SpaceInsideBrackets(text) ==
    \E i \in 1..(Len(text) - 1) :
        \/ text[i] \in {"(", "[", "{", "<"} /\ text[i + 1] \in WhiteSpace
        \/ text[i] \in WhiteSpace /\ text[i + 1] \in {")", "]", "}", ">"}

\* C28: with force_brackets on, the text shown has no white space right
\* after an opening bracket nor right before a closing bracket, for the
\* four kinds (), [], {}, <> and for brackets that were full-width in the
\* message; the raw text "（ 測試 ）" is shown as "(測試)".
C28_NoSpaceInsideBrackets ==
    [][(DeliveryStep /\ force_brackets)
          => /\ ~SpaceInsideBrackets(result_text')
             /\ raw_text = ScenarioF
                  => result_text' = <<"(", "U+6E2C", "U+8A66", ")">>]_vars

\* a message with full-width square brackets and white space on both sides
\* of its body has been displayed with force_brackets on
C28_Witness ==
    /\ delivered = 1 /\ force_brackets /\ ~remove_newlines
    /\ raw_text = <<"U+FF3B", " ", "\t", "a", "\n", "U+FF3D">>
    /\ result_text = <<"[", "a", "]">>

---------------------------------------------------------------------------
(* The interaction flags and the stored rectangle *)

\* C29: the interaction state is one tagged value: in every state reached
\* by left-button presses, moves and releases (two presses with no release
\* between them included) dragging and resizing are not both set, and
\* resizing is set exactly when a resize edge is recorded.
C29_SingleTag ==
    /\ ~(dragging /\ resizing)
    /\ resizing <=> resize_edge # None

\* C30: saving and restoring the rectangle is stable: an Enter that saves
\* stores exactly the rectangle on screen; clamping the rectangle a session
\* was opened with from a saved selection gives that rectangle again; and a
\* session opened after a confirm opens with the rectangle that was saved,
\* so a confirm without editing saves what the session was opened with.
C30_SaveRestoreStable ==
    /\ [](OpenedFromSaved => initial_rect(screen, <<rect>>) = rect)
    /\ [][/\ (ConfirmStep /\ rect.w > 10 /\ rect.h > 10)
             => config' = <<rect>>
          /\ (session' = session + 1 /\ config = <<rect>>)
             => rect' = rect /\ config' = config]_vars

\* a second session has been opened with the rectangle that the first one,
\* opened from a selection saved partly off the screen, saved at its confirm
C30_Witness ==
    /\ session = 2 /\ open /\ started = 1
    /\ screen = ScenarioA_Screen
    /\ config = <<QRect(0, 10, 300, 200)>>
    /\ rect = QRect(0, 10, 300, 200)

=============================================================================
